---- MODULE Spec2Model ----
(***************************************************************************)
(* Payment subsystem of express-api: PaymentEngine orchestrating           *)
(* ConfigManager, PluginManager, OrderManager and the UsdtPay plugin over  *)
(* the Sequelize store.  Every request is an asynchronous task that may    *)
(* suspend at each await; one action models one such step.                 *)
(***************************************************************************)
EXTENDS Integers, Sequences, FiniteSets, TLC

\* ---------------------------------------------------------------- bounds
MaxTasks == 2
MaxTime == 2
MaxOrderNo == 1
MaxRecords == 2
MaxOrders == 2

\* ------------------------------------------------------- program constants
\* order lifetime, in clock ticks (30 minutes in the code)
OrderTTL == 1

NULL == "null"
None == << >>
Some(x) == << x >>

TaskIds == 1..MaxTasks
OrderNos == 1..MaxOrderNo
ChannelIds == {1, 2}
PluginIds == {1}

\* ------------------------------------------------------------------ state
VARIABLES
    initialized,   \* PaymentEngine.initialized
    pluginRecs,    \* payment_plugins rows: plugin id -> [status]
    plugins,       \* PluginManager.plugins: ids of cached instances
    channels,      \* payment_channels rows: channel id -> record
    orders,        \* payment_orders rows, index = id
    transactions,  \* payment_transactions rows, index = id
    callbacks,     \* payment_callbacks rows, index = id
    now,           \* wall clock in ticks
    tasks,         \* in-flight requests / scheduled jobs
    adminInitialized, \* PaymentAdminController.initialized
    adminPlugins,  \* PluginManager.plugins of the admin controller's engine
    configRows,    \* payment_configs rows: <<channel id, key>> -> row
    channelCache,  \* ConfigManager.channelCache of the admin controller's engine
    configCache,   \* ConfigManager.configCache of the admin controller's engine
    engineChannelCache, \* ConfigManager.channelCache of the payment controller's engine
    wasSuccess     \* history: ids of the orders that have been stored as success

vars == << initialized, pluginRecs, plugins, channels, orders, transactions,
           callbacks, now, tasks, adminInitialized, adminPlugins, configRows,
           channelCache, configCache, engineChannelCache, wasSuccess >>

store == << orders, transactions, callbacks >>
config == << pluginRecs, plugins, channels >>
caches == << configRows, channelCache, configCache, engineChannelCache >>
admin == << adminInitialized, adminPlugins, caches >>

\* ------------------------------------------------------------ task records
IdleTask ==
    [op |-> "idle", pc |-> "idle", data |-> NULL, chan |-> 0, oid |-> 0,
     snap |-> NULL, res |-> NULL, result |-> NULL, calls |-> {},
     returned |-> None]

\* the task ends: its locals are dropped, its input and outcome stay visible
\* until the caller has taken the response
Ended(tk, outcome) ==
    [tk EXCEPT !.pc = "done", !.result = outcome, !.chan = 0,
               !.snap = NULL, !.res = NULL]

\* a new request runs in the first free slot
Idle(t) == tasks[t].op = "idle" /\ \A u \in TaskIds : u < t => tasks[u].op # "idle"
At(t, o, l) == tasks[t].op = o /\ tasks[t].pc = l

\* ------------------------------------------------------------- the channels
\* channels as seeded: two routes of the one plugin
InitChannels ==
    (1 :> [channel_code |-> "CH_A", plugin_id |-> 1, status |-> "active",
           priority |-> 1, supported_currencies |-> {"USD"},
           min_amount |-> 1, max_amount |-> 50, secret_key |-> "KA"])
    @@
    (2 :> [channel_code |-> "CH_B", plugin_id |-> 1, status |-> "active",
           priority |-> 2, supported_currencies |-> {"USD", "USDT"},
           min_amount |-> 20, max_amount |-> 100, secret_key |-> "KB"])

ChannelStatuses == {"active", "inactive", "maintenance"}
PluginStatuses == {"active", "inactive", "error"}

\* an amount that arrives as text (a JSON string): its value, tagged
Text(n) == << n, "text" >>
IsText(amount) == Len(amount) = 2

\* the decimal digits of a natural number, most significant first
RECURSIVE Digits(_)
Digits(n) == IF n < 10 THEN << n >> ELSE Digits(n \div 10) \o << n % 10 >>

\* characters compare by code: "." comes before every digit
Dot == 0 - 1

\* a DECIMAL(15,2) column as the driver hands it over: the text "n.00"
DecimalText(n) == Digits(n) \o << Dot, 0, 0 >>

\* a <= b on two texts, as JavaScript compares strings
RECURSIVE TextLeq(_, _)
TextLeq(a, b) ==
    IF a = << >> THEN TRUE
    ELSE IF b = << >> THEN FALSE
    ELSE IF a[1] # b[1] THEN a[1] < b[1]
    ELSE TextLeq(Tail(a), Tail(b))

\* filters.amount >= channel.min_amount and filters.amount <= channel.max_amount:
\* numeric when the amount is a number, by characters when both are texts
AmountGeq(amount, limit) ==
    IF IsText(amount) THEN TextLeq(DecimalText(limit), Digits(amount[1]))
    ELSE amount[1] >= limit

AmountLeq(amount, limit) ==
    IF IsText(amount) THEN TextLeq(Digits(amount[1]), DecimalText(limit))
    ELSE amount[1] <= limit

\* the characters of a currency code
Chars(cur) ==
    CASE cur = "USD" -> << "U", "S", "D" >>
      [] cur = "USDT" -> << "U", "S", "D", "T" >>
      [] cur = "EUR" -> << "E", "U", "R" >>
      [] cur = "US_" -> << "U", "S", "_" >>

\* supported_currencies LIKE '%"<currency>"%' on the JSON text of the column:
\* some quoted entry matches, "_" standing for any one character
CurrencyLike(cur, supported) ==
    \E e \in supported :
        /\ Len(Chars(cur)) = Len(Chars(e))
        /\ \A i \in 1..Len(Chars(cur)) :
              Chars(cur)[i] = "_" \/ Chars(cur)[i] = Chars(e)[i]

\* ConfigManager.getAvailableChannels: ids of the matching rows, in the order
\* of the query (priority DESC, created_at ASC; rows are created in id order)
Eligible(filters) ==
    { c \in DOMAIN channels :
        /\ channels[c].status = "active"
        /\ channels[c].plugin_id \in DOMAIN pluginRecs
        /\ pluginRecs[channels[c].plugin_id].status = "active"
        /\ (filters.currency # NULL =>
              CurrencyLike(filters.currency, channels[c].supported_currencies))
        /\ (filters.amount # None /\ filters.amount # Some(0) =>
              /\ AmountGeq(filters.amount, channels[c].min_amount)
              /\ AmountLeq(filters.amount, channels[c].max_amount)) }

\* variant of the order of the query that breaks ties by the later row
BeforeLatest(a, b) ==
    \/ channels[a].priority > channels[b].priority
    \/ (channels[a].priority = channels[b].priority /\ a > b)

Before(a, b) ==
    \/ channels[a].priority > channels[b].priority
    \/ (channels[a].priority = channels[b].priority /\ a < b)

RECURSIVE SortChannels(_)
SortChannels(S) ==
    IF S = {} THEN << >>
    ELSE LET first == CHOOSE a \in S : \A b \in S \ {a} : Before(a, b)
         IN << first >> \o SortChannels(S \ {first})

getAvailableChannels(filters) == SortChannels(Eligible(filters))

\* variant of _validateOrderData without the check of the amount's sign
ValidateOrderDataUnsigned(d) ==
    /\ d.merchant_order_no # NULL
    /\ d.amount # None /\ d.amount # Some(0)
    /\ d.currency # NULL
    /\ d.subject # NULL

\* PaymentEngine._validateOrderData: TRUE when no error is thrown
ValidateOrderData(d) ==
    /\ d.merchant_order_no # NULL
    /\ d.amount # None /\ d.amount # Some(0)
    /\ d.currency # NULL
    /\ d.subject # NULL
    /\ ~(d.amount[1] <= 0)

\* variant of _selectPaymentChannel that ignores the requested channel code
SelectPaymentChannelAnyCode(d) ==
    LET chs == getAvailableChannels([currency |-> d.currency, amount |-> d.amount])
    IN  IF Len(chs) = 0 THEN 0 ELSE chs[1]

\* PaymentEngine._selectPaymentChannel: the chosen channel id, 0 when it throws
SelectPaymentChannel(d) ==
    LET chs == getAvailableChannels([currency |-> d.currency, amount |-> d.amount])
    IN  IF Len(chs) = 0 THEN 0
        ELSE IF d.channel_code # NULL
             THEN IF \E i \in 1..Len(chs) :
                        channels[chs[i]].channel_code = d.channel_code
                  THEN CHOOSE c \in DOMAIN channels :
                         /\ \E i \in 1..Len(chs) : chs[i] = c
                         /\ channels[c].channel_code = d.channel_code
                  ELSE 0
             ELSE chs[1]

\* ------------------------------------------------------------------- inputs
Amounts == {None, Some(0), Some(0 - 5), Some(10), Some(30), Some(500)}
Currencies == {NULL, "USD", "EUR"}
ChannelCodes == {NULL, "CH_A", "CH_B", "CH_X"}

BaseOrder ==
    [merchant_order_no |-> "M1", amount |-> Some(30), currency |-> "USDT",
     subject |-> "S", channel_code |-> NULL]

\* order requests: the base request with one field changed, and the small
\* amounts in every currency and for every requested channel
OrderDataInputs ==
    {[BaseOrder EXCEPT !.amount = a] : a \in Amounts}
        \cup {[BaseOrder EXCEPT !.currency = c] : c \in Currencies}
        \cup {[BaseOrder EXCEPT !.channel_code = c] : c \in ChannelCodes}
        \cup {[BaseOrder EXCEPT !.merchant_order_no = NULL],
              [BaseOrder EXCEPT !.subject = NULL]}
        \cup {[BaseOrder EXCEPT !.amount = Some(10), !.currency = "USD",
                                !.channel_code = c] : c \in ChannelCodes}

\* --------------------------------------------------------------------- Init
Init ==
    /\ initialized = FALSE
    /\ pluginRecs = [p \in PluginIds |-> [status |-> "active"]]
    /\ plugins = {}
    /\ channels = InitChannels
    /\ orders = << >>
    /\ transactions = << >>
    /\ callbacks = << >>
    /\ now = 0
    /\ tasks = [t \in TaskIds |-> IdleTask]
    /\ adminInitialized = FALSE
    /\ adminPlugins = {}
    /\ configRows = << >>
    /\ channelCache = << >>
    /\ configCache = << >>
    /\ engineChannelCache = << >>
    /\ wasSuccess = {}

\* ------------------------------------------------------------ PluginManager
\* PluginManager._loadActivePlugins: every active plugin is loaded; the row
\* of a plugin whose _loadPlugin threw is marked error
LoadActivePlugins(failed) ==
    [p \in DOMAIN pluginRecs |->
        IF p \in failed THEN [pluginRecs[p] EXCEPT !.status = "error"]
        ELSE pluginRecs[p]]

ActivePlugins == { p \in DOMAIN pluginRecs : pluginRecs[p].status = "active" }

\* _loadPlugin caches the instance and then writes loaded_at and status: for
\* the cached instances in loaded, the sets of plugins whose _loadPlugin threw
\* are the uncached ones together with any cached ones whose write failed
LoadFailures(loaded) ==
    { (ActivePlugins \ loaded) \cup late : late \in SUBSET loaded }

\* ------------------------------------------------- ConfigManager's caches
ConfigKeys == {"api_key"}

\* f without the entries of the keys in S (Map.delete, Model.destroy)
Without(f, S) == [x \in DOMAIN f \ S |-> f[x]]

\* a text and whether it is the ciphertext of _encrypt
Plaintext(v) == [text |-> v, cipher |-> FALSE]
Encrypt(x) == [x EXCEPT !.cipher = TRUE]
Decrypt(x) == [x EXCEPT !.cipher = FALSE]

\* the value of a config row as the manager hands it out
Decrypted(row) ==
    IF row.is_encrypted THEN Decrypt(row.config_value) ELSE row.config_value

\* a channel row read with include configs, its config values decrypted
LoadedChannel(c) ==
    [row |-> channels[c],
     configs |-> [k \in { k \in ConfigKeys : << c, k >> \in DOMAIN configRows }
                    |-> Decrypted(configRows[<< c, k >>])]]

\* ConfigManager._preloadActiveChannels
PreloadActiveChannels ==
    [c \in { c \in DOMAIN channels : channels[c].status = "active" }
        |-> LoadedChannel(c)]

\* PaymentEngine.initialize of the payment controller's engine:
\* configManager.initialize preloads the active channels, pluginManager.initialize
\* loads the active plugins
Initialize ==
    /\ ~initialized
    /\ \E loaded \in SUBSET ActivePlugins :
        \E failed \in LoadFailures(loaded) :
          /\ plugins' = loaded
          /\ pluginRecs' = LoadActivePlugins(failed)
    /\ engineChannelCache' = PreloadActiveChannels @@ engineChannelCache
    /\ initialized' = TRUE
    /\ UNCHANGED << channels, store, now, tasks, adminInitialized, adminPlugins,
                    configRows, channelCache, configCache, wasSuccess >>

\* PaymentEngine.initialize of the admin controller's engine
AdminInitialize ==
    /\ ~adminInitialized
    /\ \E loaded \in SUBSET ActivePlugins :
        \E failed \in LoadFailures(loaded) :
          /\ adminPlugins' = loaded
          /\ pluginRecs' = LoadActivePlugins(failed)
    /\ channelCache' = PreloadActiveChannels
    /\ adminInitialized' = TRUE
    /\ UNCHANGED << initialized, plugins, channels, store, now, tasks,
                    configRows, configCache, engineChannelCache,
                    wasSuccess >>

\* PluginManager.updatePluginStatus, called on the admin controller's engine
UpdatePluginStatus(p, s) ==
    /\ adminInitialized
    /\ p \in DOMAIN pluginRecs
    /\ pluginRecs[p].status # s
    /\ pluginRecs' = [pluginRecs EXCEPT ![p].status = s]
    /\ adminPlugins' = IF s # "active" THEN adminPlugins \ {p} ELSE adminPlugins
    /\ UNCHANGED << initialized, plugins, channels, store, now, tasks,
                    adminInitialized, caches, wasSuccess >>

\* PluginManager.getPlugin on the payment engine: "cached", "loaded", or the
\* reason it throws.  loadOk is whether _loadPlugin succeeds.
GetPluginOutcome(p, loadOk) ==
    IF p \in plugins THEN "cached"
    ELSE IF p \notin DOMAIN pluginRecs THEN "notFound"
    ELSE IF pluginRecs[p].status # "active" THEN "inactive"
    ELSE IF loadOk THEN "loaded" ELSE "loadFailed"

GotPlugin(outcome) == outcome \in {"cached", "loaded"}

\* the cache after getPlugin
PluginsAfter(p, outcome) == IF outcome = "loaded" THEN plugins \cup {p} ELSE plugins

\* ---------------------------------------------------------------- the clock
Tick ==
    /\ now < MaxTime
    /\ now' = now + 1
    /\ UNCHANGED << initialized, config, store, tasks, admin, wasSuccess >>

\* ------------------------------------------------------------- OrderManager
NewOrder(orderNo, channelId) ==
    [order_no |-> orderNo, channel_id |-> channelId, status |-> "pending",
     gateway_order_no |-> NULL, gateway_trade_no |-> NULL, paid_at |-> None,
     expired_at |-> now + OrderTTL]

\* variant of the store without the unique index on order_no
OrderNoNeverTaken(orderNo) == FALSE

\* the unique index on order_no: a row with this number exists
OrderNoTaken(orderNo) == \E i \in 1..Len(orders) : orders[i].order_no = orderNo

\* OrderManager.updateOrder: UPDATE ... WHERE id = orderId
UpdateOrder(ords, orderId, upd) ==
    [i \in 1..Len(ords) |-> IF i = orderId THEN upd @@ ords[i] ELSE ords[i]]

\* OrderManager.updateOrderByNo: UPDATE ... WHERE order_no = orderNo
UpdateOrderByNo(ords, orderNo, upd) ==
    [i \in 1..Len(ords) |->
        IF ords[i].order_no = orderNo THEN upd @@ ords[i] ELSE ords[i]]

\* OrderManager.getOrderByNo: the id of the row, 0 when there is none
GetOrderByNo(orderNo) ==
    IF \E i \in 1..Len(orders) : orders[i].order_no = orderNo
    THEN CHOOSE i \in 1..Len(orders) : orders[i].order_no = orderNo
    ELSE 0

Visit(ords) == wasSuccess \cup { i \in 1..Len(ords) : ords[i].status = "success" }

\* ------------------------------------------------ PaymentEngine.createPayment
\* steps 1-3: _ensureInitialized, _validateOrderData, _selectPaymentChannel
\* and pluginManager.getPlugin(channel.plugin_id)
CreatePayment(t, d) ==
    /\ Idle(t)
    /\ \E loadOk \in BOOLEAN :
         LET begun == [IdleTask EXCEPT !.op = "createPayment", !.data = d]
             c == SelectPaymentChannel(d)
             out == IF c = 0 THEN "none"
                    ELSE GetPluginOutcome(channels[c].plugin_id, loadOk)
             reached == initialized /\ ValidateOrderData(d) /\ c # 0
         IN /\ tasks' = [tasks EXCEPT ![t] =
                 IF ~initialized THEN Ended(begun, "throw:notInitialized")
                 ELSE IF ~ValidateOrderData(d) THEN Ended(begun, "throw:validation")
                 ELSE IF c = 0 THEN Ended(begun, "throw:channel")
                 ELSE IF ~GotPlugin(out) THEN Ended(begun, "throw:plugin")
                 ELSE [begun EXCEPT !.pc = "insert", !.chan = c]]
            /\ plugins' = IF reached THEN PluginsAfter(channels[c].plugin_id, out)
                          ELSE plugins
    /\ UNCHANGED << initialized, pluginRecs, channels, store, now, admin, wasSuccess >>

\* step 4: orderManager.createOrder with the generated number orderNo;
\* order_no is unique in the store
CreatePaymentInsert(t, orderNo) ==
    /\ At(t, "createPayment", "insert")
    /\ IF OrderNoTaken(orderNo)
      THEN /\ tasks' = [tasks EXCEPT ![t] = Ended(@, "throw:store")]
           /\ UNCHANGED << orders, wasSuccess >>
      ELSE /\ orders' = Append(orders, NewOrder(orderNo, tasks[t].chan))
           /\ wasSuccess' = Visit(orders')
           /\ tasks' = [tasks EXCEPT ![t] =
                 [@ EXCEPT !.pc = "call", !.oid = Len(orders) + 1, !.chan = 0]]
    /\ UNCHANGED << initialized, config, transactions, callbacks, now, admin >>

\* what plugin.createOrder yields: it throws, or returns this status
\* (UsdtPay returns processing; NULL is a result without a status)
CreateOrderResults == {"throw", "processing", NULL}

\* step 5: plugin.createOrder(order, channel)
CreatePaymentCall(t) ==
    /\ At(t, "createPayment", "call")
    /\ \E r \in CreateOrderResults :
         tasks' = [tasks EXCEPT ![t] =
            IF r = "throw"
            THEN Ended([@ EXCEPT !.calls = @ \cup {"createOrder"}], "throw:provider")
            ELSE [@ EXCEPT !.pc = "update", !.res = r,
                           !.calls = @ \cup {"createOrder"}]]
    /\ UNCHANGED << initialized, config, store, now, admin, wasSuccess >>

\* step 6: orderManager.updateOrder(order.id, {gateway_order_no, status})
CreatePaymentUpdate(t) ==
    /\ At(t, "createPayment", "update")
    /\ \E writeOk \in BOOLEAN :
         IF writeOk
         THEN /\ orders' = UpdateOrder(orders, tasks[t].oid,
                    [gateway_order_no |-> "G",
                     status |-> IF tasks[t].res = NULL THEN "processing"
                                ELSE tasks[t].res])
              /\ wasSuccess' = Visit(orders')
              /\ tasks' = [tasks EXCEPT ![t] = Ended(@, "ok")]
         ELSE /\ tasks' = [tasks EXCEPT ![t] = Ended(@, "throw:store")]
              /\ UNCHANGED << orders, wasSuccess >>
    /\ UNCHANGED << initialized, config, transactions, callbacks, now, admin >>

\* --------------------------------------------------------- the UsdtPay plugin
Undefined == "undefined"

\* A parameter map may also be given character by character: a value is
\* null, undefined, a string (the empty one included) or a number, with the
\* text that `${value}` gives.  The keys of such a map, as
\* Object.keys(params).sort() orders them
TextKeys == << "a", "b" >>

\* params[key] !== null && params[key] !== undefined && params[key] !== ''
Filtered(value) ==
    \/ value.kind \in {"null", "undefined"}
    \/ value.kind = "string" /\ value.text = << >>

\* .map(key => `${key}=${filteredParams[key]}`).join('&')
RECURSIVE JoinPairs(_, _)
JoinPairs(params, keys) ==
    IF keys = << >> THEN << >>
    ELSE << Head(keys), "=" >> \o params[Head(keys)].text
         \o (IF Tail(keys) = << >> THEN << >> ELSE << "&" >>)
         \o JoinPairs(params, Tail(keys))

\* BasePaymentPlugin.generateSignature, the string that is hashed: the fields
\* that are not empty, sorted by key, then the secret.  The fields of a
\* callback hold no '&' or '=' and are kept as pairs; a map of texts is joined
\* character by character
SignString(params, secretKey) ==
    IF "order_no" \notin DOMAIN params
    THEN [str |-> JoinPairs(params,
                     SelectSeq(TextKeys, LAMBDA k : ~Filtered(params[k]))),
          key |-> secretKey]
    ELSE
    [str |-> (IF params.order_no # 0
              THEN << << "order_no", params.order_no >> >> ELSE << >>)
             \o (IF params.status # NULL
                 THEN << << "status", params.status >> >> ELSE << >>)
             \o (IF params.trade_no # Undefined
                 THEN << << "trade_no", params.trade_no >> >> ELSE << >>),
     key |-> secretKey]

\* the digest algorithms the plugin documents
Algorithms == {"md5", "sha1", "sha256"}

\* how the letters of a hexadecimal text are written
LetterCases == {"lower", "upper", "mixed"}

\* createHash(algorithm).update(signString).digest('hex'): lower-case
\* hexadecimal text; the digest is one-to-one on what it hashes
DigestHex(algorithm, signString) ==
    [alg |-> algorithm, of |-> signString, letters |-> "lower"]

ToUpperCase(hex) == [hex EXCEPT !.letters = "upper"]
ToLowerCase(hex) == [hex EXCEPT !.letters = "lower"]

\* BasePaymentPlugin.generateSignature
GenerateSignature(params, secretKey, algorithm) ==
    ToUpperCase(DigestHex(algorithm, SignString(params, secretKey)))

\* variant of verifySignature that lower-cases only the expected signature
VerifySignatureAsReceived(params, signature, secretKey, algorithm) ==
    ToLowerCase(GenerateSignature(params, secretKey, algorithm)) = signature

\* BasePaymentPlugin.verifySignature
VerifySignature(params, signature, secretKey, algorithm) ==
    ToLowerCase(GenerateSignature(params, secretKey, algorithm))
        = ToLowerCase(signature)

\* UsdtPay.verifyCallback
VerifyCallback(d, channel) ==
    /\ channel.secret_key # NULL
    /\ d.sign # None
    /\ VerifySignature(d, d.sign[1], channel.secret_key, "sha256")

\* UsdtPay.handleCallback: provider status -> order status
CallbackStatus(raw) ==
    CASE raw \in {"success", "paid"} -> "success"
      [] raw \in {"failed", "expired"} -> "failed"
      [] raw \in {"pending", "processing"} -> "processing"
      [] OTHER -> "pending"

\* UsdtPay.handleCallback: the result handed back to the engine
PluginHandleCallback(d) ==
    IF d.order_no = 0 \/ d.status = NULL
    THEN [success |-> FALSE, order_no |-> 0, status |-> NULL,
          gateway_trade_no |-> Undefined, paid_at |-> None]
    ELSE [success |-> TRUE, order_no |-> d.order_no,
          status |-> CallbackStatus(d.status),
          gateway_trade_no |-> d.trade_no,
          paid_at |-> IF CallbackStatus(d.status) = "success" THEN Some(now) ELSE None]

\* UsdtPay.queryOrder: provider status -> order status
QueryStatus(raw) ==
    CASE raw \in {"success", "paid"} -> "success"
      [] raw \in {"failed", "expired"} -> "failed"
      [] raw = "processing" -> "processing"
      [] OTHER -> "pending"

\* UsdtPay.queryOrder: the result built from the provider's answer
PluginQueryResult(info) ==
    [status |-> QueryStatus(info.status),
     gateway_trade_no |-> info.trade_no,
     paid_at |-> IF QueryStatus(info.status) = "success"
                    /\ info.paid_at # None /\ info.paid_at # Some(0)
                 THEN info.paid_at ELSE None]

\* the fields of a status update; Model.update leaves out gateway_trade_no
\* when its value is undefined
StatusUpdate(r) ==
    IF r.gateway_trade_no = Undefined
    THEN [status |-> r.status, paid_at |-> r.paid_at]
    ELSE [status |-> r.status, gateway_trade_no |-> r.gateway_trade_no,
          paid_at |-> r.paid_at]

\* --------------------------------------------- PaymentEngine.handleCallback
\* ConfigManager.getChannelByCode: the id of the row, 0 when there is none
GetChannelByCode(code) ==
    IF \E c \in DOMAIN channels : channels[c].channel_code = code
    THEN CHOOSE c \in DOMAIN channels : channels[c].channel_code = code
    ELSE 0

\* step 1: _ensureInitialized, configManager.getChannelByCode and
\* pluginManager.getPlugin; reading plugin_id of a missing channel throws
HandleCallback(t, code, d) ==
    /\ Idle(t)
    /\ Len(callbacks) + Cardinality({ u \in TaskIds :
            tasks[u].op = "handleCallback" /\ tasks[u].pc # "done" }) < MaxRecords
    /\ \E loadOk \in BOOLEAN :
         LET begun == [IdleTask EXCEPT !.op = "handleCallback", !.data = d]
             c == GetChannelByCode(code)
             out == IF c = 0 THEN "none"
                    ELSE GetPluginOutcome(channels[c].plugin_id, loadOk)
         IN /\ tasks' = [tasks EXCEPT ![t] =
                 IF ~initialized THEN Ended(begun, "throw:notInitialized")
                 ELSE IF c = 0 THEN Ended(begun, "throw:channel")
                 ELSE IF ~GotPlugin(out) THEN Ended(begun, "throw:plugin")
                 ELSE [begun EXCEPT !.pc = "log", !.chan = c]]
            /\ plugins' = IF initialized /\ c # 0
                          THEN PluginsAfter(channels[c].plugin_id, out) ELSE plugins
    /\ UNCHANGED << initialized, pluginRecs, channels, store, now, admin, wasSuccess >>

\* OrderManager.logCallback: the order id stored with the audit record.  The
\* engine passes neither order_id nor order_no, so no order is looked up.
LogCallbackOrderId(logData) ==
    IF logData.order_id # 0 THEN logData.order_id
    ELSE IF logData.order_no # 0 THEN GetOrderByNo(logData.order_no)
    ELSE 0

\* what the engine hands to logCallback (PaymentEngine.handleCallback step 2)
CallbackLogData(d) == [order_id |-> 0, order_no |-> 0]

\* PaymentCallback.order_id is declared allowNull: false: the insert of a
\* record without an order id is rejected
CallbackInsertRejected(orderId) == orderId = 0

\* steps 3-7 on a stored audit record: verify, flag the record, delegate to
\* the plugin, update the order, mark the record processed
ProcessCallback(t, orderId) ==
    LET d == tasks[t].data
        cb == Len(callbacks) + 1
        logged == Append(callbacks, [order_id |-> orderId, is_verified |-> FALSE,
                                     is_processed |-> FALSE])
        isValid == VerifyCallback(d, channels[tasks[t].chan])
        verified == [logged EXCEPT ![cb].is_verified = isValid]
        r == PluginHandleCallback(d)
    IN  IF ~isValid
        THEN /\ callbacks' = verified
             /\ tasks' = [tasks EXCEPT ![t] =
                   Ended([@ EXCEPT !.calls = @ \cup {"verifyCallback"}],
                         "fail:signature")]
             /\ UNCHANGED << orders, wasSuccess >>
        ELSE /\ callbacks' = [verified EXCEPT ![cb].is_processed = TRUE]
             /\ orders' = IF r.order_no # 0
                          THEN UpdateOrderByNo(orders, r.order_no, StatusUpdate(r))
                          ELSE orders
             /\ wasSuccess' = Visit(orders')
             /\ tasks' = [tasks EXCEPT ![t] =
                   Ended([@ EXCEPT !.calls = @ \cup {"verifyCallback", "handleCallback"}],
                         IF r.success THEN "ok" ELSE "fail:plugin")]

\* step 2: orderManager.logCallback; the steps after it run only when the
\* audit record was stored
HandleCallbackLog(t) ==
    /\ At(t, "handleCallback", "log")
    /\ LET orderId == LogCallbackOrderId(CallbackLogData(tasks[t].data))
       IN IF CallbackInsertRejected(orderId)
          THEN /\ tasks' = [tasks EXCEPT ![t] = Ended(@, "throw:store")]
               /\ UNCHANGED << orders, callbacks, wasSuccess >>
          ELSE ProcessCallback(t, orderId)
    /\ UNCHANGED << initialized, config, transactions, now, admin >>

\* ----------------------- ConfigManager.getChannel of the payment engine
\* the channel handed back: the cached copy if there is one, else the row
\* read with its configs
EngineGetChannel(c) ==
    IF c \in DOMAIN engineChannelCache THEN engineChannelCache[c]
    ELSE LoadedChannel(c)

\* the cache after the call: a channel that was read is cached
EngineCacheAfter(c) ==
    IF c \in DOMAIN engineChannelCache THEN engineChannelCache
    ELSE (c :> LoadedChannel(c)) @@ engineChannelCache

\* ------------------------------------------------- PaymentEngine.queryOrder
\* what the provider may answer to a query
ProviderStatuses ==
    {"success", "paid", "failed", "expired", "pending", "processing", "unknown"}

ProviderAnswers ==
    [status : ProviderStatuses, trade_no : {"T"},
     paid_at : {None, Some(0), Some(1)}]

\* variant of the test that also re-queries failed orders
UnsettledOrFailed(status) == status \in {"pending", "processing", "failed"}

\* the statuses queryOrder asks the provider about
Unsettled(status) == status \in {"pending", "processing"}

\* _ensureInitialized and orderManager.getOrderByNo; an order that is not
\* pending or processing is returned as stored.  snap is the order as read,
\* returned the order object handed back.  Otherwise
\* configManager.getChannel(order.channel_id) and pluginManager.getPlugin
QueryOrder(t, orderNo) ==
    /\ Idle(t)
    /\ \E loadOk \in BOOLEAN :
         LET begun == [IdleTask EXCEPT !.op = "queryOrder", !.data = orderNo]
             o == GetOrderByNo(orderNo)
             open == initialized /\ o # 0 /\ Unsettled(orders[o].status)
             p == EngineGetChannel(orders[o].channel_id).row.plugin_id
             out == IF open THEN GetPluginOutcome(p, loadOk) ELSE "none"
         IN /\ tasks' = [tasks EXCEPT ![t] =
                 IF ~initialized THEN Ended(begun, "throw:notInitialized")
                 ELSE IF o = 0 THEN Ended(begun, "throw:notFound")
                 ELSE IF ~open
                 THEN [Ended([begun EXCEPT !.oid = o], orders[o].status)
                          EXCEPT !.returned = Some(orders[o])]
                 ELSE IF ~GotPlugin(out)
                 THEN Ended([begun EXCEPT !.oid = o], "throw:plugin")
                 ELSE [begun EXCEPT !.pc = "call", !.oid = o,
                                    !.snap = orders[o]]]
            /\ plugins' = IF open THEN PluginsAfter(p, out) ELSE plugins
            /\ engineChannelCache' =
                  IF open THEN EngineCacheAfter(orders[o].channel_id)
                  ELSE engineChannelCache
    /\ UNCHANGED << initialized, pluginRecs, channels, store, now,
                    adminInitialized, adminPlugins, configRows, channelCache,
                    configCache, wasSuccess >>

\* plugin.queryOrder(order, channel): the request fails, or the provider's
\* answer is mapped
QueryOrderCall(t) ==
    /\ At(t, "queryOrder", "call")
    /\ \/ tasks' = [tasks EXCEPT ![t] =
            Ended([@ EXCEPT !.calls = @ \cup {"queryOrder"}], "throw:provider")]
       \/ \E info \in ProviderAnswers :
            LET r == PluginQueryResult(info)
            IN tasks' = [tasks EXCEPT ![t] =
                 IF r.status # tasks[t].snap.status
                 THEN [@ EXCEPT !.pc = "update", !.res = r,
                                !.calls = @ \cup {"queryOrder"}]
                 ELSE [Ended([@ EXCEPT !.calls = @ \cup {"queryOrder"}],
                             tasks[t].snap.status)
                          EXCEPT !.returned = Some(tasks[t].snap)]]
    /\ UNCHANGED << initialized, config, store, now, admin, wasSuccess >>

\* orderManager.updateOrder(order.id, {status, gateway_trade_no, paid_at}),
\* then order.status = queryResult.status: the order read at the start is
\* returned with the new status
QueryOrderUpdate(t) ==
    /\ At(t, "queryOrder", "update")
    /\ orders' = UpdateOrder(orders, tasks[t].oid, StatusUpdate(tasks[t].res))
    /\ wasSuccess' = Visit(orders')
    /\ tasks' = [tasks EXCEPT ![t] =
          [Ended(@, tasks[t].res.status)
              EXCEPT !.returned =
                  Some([tasks[t].snap EXCEPT !.status = tasks[t].res.status])]]
    /\ UNCHANGED << initialized, config, transactions, callbacks, now, admin >>

\* ----------------------------------------------------- PaymentEngine.refund
\* what plugin.refund yields: it throws (UsdtPay always does), or returns a
\* result with this status
RefundResults == {"throw", "success", "failed"}

\* variant of the status check that also lets a processing order through
RefundableOrProcessing(status) == status \in {"success", "processing"}

\* the status check of refund
Refundable(status) == status = "success"

\* _ensureInitialized, orderManager.getOrderByNo and the status check, then
\* configManager.getChannel(order.channel_id) and pluginManager.getPlugin
Refund(t, orderNo) ==
    /\ Idle(t)
    /\ Len(transactions) + Cardinality({ u \in TaskIds :
            tasks[u].op = "refund" /\ tasks[u].pc # "done" }) < MaxRecords
    /\ \E loadOk \in BOOLEAN :
         LET begun == [IdleTask EXCEPT !.op = "refund", !.data = orderNo]
             o == GetOrderByNo(orderNo)
             paid == initialized /\ o # 0 /\ Refundable(orders[o].status)
             p == EngineGetChannel(orders[o].channel_id).row.plugin_id
             out == IF paid THEN GetPluginOutcome(p, loadOk) ELSE "none"
         IN /\ tasks' = [tasks EXCEPT ![t] =
                 IF ~initialized THEN Ended(begun, "throw:notInitialized")
                 ELSE IF o = 0 THEN Ended(begun, "throw:notFound")
                 ELSE IF ~paid THEN Ended([begun EXCEPT !.oid = o], "throw:state")
                 ELSE IF ~GotPlugin(out)
                 THEN Ended([begun EXCEPT !.oid = o], "throw:plugin")
                 ELSE [begun EXCEPT !.pc = "call", !.oid = o]]
            /\ plugins' = IF paid THEN PluginsAfter(p, out) ELSE plugins
            /\ engineChannelCache' =
                  IF paid THEN EngineCacheAfter(orders[o].channel_id)
                  ELSE engineChannelCache
    /\ UNCHANGED << initialized, pluginRecs, channels, store, now,
                    adminInitialized, adminPlugins, configRows, channelCache,
                    configCache, wasSuccess >>

\* plugin.refund(order, refundAmount, reason, channel)
RefundCall(t) ==
    /\ At(t, "refund", "call")
    /\ \E r \in RefundResults :
         tasks' = [tasks EXCEPT ![t] =
            IF r = "throw"
            THEN Ended([@ EXCEPT !.calls = @ \cup {"refund"}], "throw:provider")
            ELSE [@ EXCEPT !.pc = "record", !.res = r,
                           !.calls = @ \cup {"refund"}]]
    /\ UNCHANGED << initialized, config, store, now, admin, wasSuccess >>

\* variant of the check below that takes every refund result as a success
RefundSettledAlways(res) == TRUE

\* refundResult.status === 'success': the order is then set to refunded
RefundSettled(res) == res = "success"

\* orderManager.createTransaction({type: 'refund', status: refundResult.status})
RefundRecord(t) ==
    /\ At(t, "refund", "record")
    /\ \E writeOk \in BOOLEAN :
         IF writeOk
         THEN /\ transactions' = Append(transactions,
                    [order_id |-> tasks[t].oid, type |-> "refund",
                     status |-> tasks[t].res])
              /\ tasks' = [tasks EXCEPT ![t] =
                    IF RefundSettled(tasks[t].res) THEN [@ EXCEPT !.pc = "update"]
                    ELSE Ended(@, tasks[t].res)]
         ELSE /\ tasks' = [tasks EXCEPT ![t] = Ended(@, "throw:store")]
              /\ UNCHANGED transactions
    /\ UNCHANGED << initialized, config, orders, callbacks, now, admin, wasSuccess >>

\* orderManager.updateOrder(order.id, {status: 'refunded'})
RefundUpdate(t) ==
    /\ At(t, "refund", "update")
    /\ \E writeOk \in BOOLEAN :
         IF writeOk
         THEN /\ orders' = UpdateOrder(orders, tasks[t].oid, [status |-> "refunded"])
              /\ wasSuccess' = Visit(orders')
              /\ tasks' = [tasks EXCEPT ![t] = Ended(@, "success")]
         ELSE /\ tasks' = [tasks EXCEPT ![t] = Ended(@, "throw:store")]
              /\ UNCHANGED << orders, wasSuccess >>
    /\ UNCHANGED << initialized, config, transactions, callbacks, now, admin >>

\* ------------------------------------------ OrderManager.processExpiredOrders
\* variant of the sweep's query that leaves pending orders out
ExpiredOrdersProcessingOnly ==
    SelectSeq([i \in 1..Len(orders) |-> i],
              LAMBDA i : /\ orders[i].status = "processing"
                         /\ orders[i].expired_at < now)

\* variant of the sweep's query that takes expired_at up to the current time
ExpiredOrdersUpToNow ==
    SelectSeq([i \in 1..Len(orders) |-> i],
              LAMBDA i : /\ orders[i].status \in {"pending", "processing"}
                         /\ orders[i].expired_at <= now)

\* the rows the sweep's query selects, in id order
ExpiredOrders ==
    SelectSeq([i \in 1..Len(orders) |-> i],
              LAMBDA i : /\ orders[i].status \in {"pending", "processing"}
                         /\ orders[i].expired_at < now)

\* ScheduleManager.processExpiredOrders fires: the query for expired orders
ProcessExpiredOrders(t) ==
    /\ Idle(t)
    /\ initialized
    /\ tasks' = [tasks EXCEPT ![t] =
          IF ExpiredOrders = << >>
          THEN Ended([IdleTask EXCEPT !.op = "sweep"], "ok")
          ELSE [IdleTask EXCEPT !.op = "sweep", !.pc = "cancel",
                                !.snap = ExpiredOrders]]
    /\ UNCHANGED << initialized, config, store, now, admin, wasSuccess >>

\* one turn of the loop: updateOrder(order.id, {status: 'cancelled'})
ProcessExpiredOrdersCancel(t) ==
    /\ At(t, "sweep", "cancel")
    /\ orders' = UpdateOrder(orders, Head(tasks[t].snap), [status |-> "cancelled"])
    /\ wasSuccess' = Visit(orders')
    /\ tasks' = [tasks EXCEPT ![t] =
          IF Tail(tasks[t].snap) = << >> THEN Ended(@, "ok")
          ELSE [@ EXCEPT !.snap = Tail(@)]]
    /\ UNCHANGED << initialized, config, transactions, callbacks, now, admin >>

\* the caller has taken the response; the slot is free again
Return(t) ==
    /\ tasks[t].pc = "done"
    /\ tasks' = [tasks EXCEPT ![t] = IdleTask]
    /\ UNCHANGED << initialized, config, store, now, admin, wasSuccess >>

\* ----------------------------------------------------------- specification
CallbackParams ==
    [order_no : OrderNos, status : {"success"}, trade_no : {"T"}]

\* a callback as a provider or a forger sends it: unsigned, signed with the
\* secret of channel CH_B, or signed with another key
CallbackInputs ==
    UNION { { [order_no |-> p.order_no, status |-> p.status,
               trade_no |-> p.trade_no, sign |-> sg] :
              sg \in {None, Some(GenerateSignature(p, "KB", "sha256")),
                      Some(GenerateSignature(p, "BAD", "sha256"))} } :
            p \in CallbackParams }

\* order requests of the life-cycle specification: a valid one and one
\* without an amount
LifecycleInputs == {BaseOrder, [BaseOrder EXCEPT !.amount = Some(0)]}

Requests(t) ==
    \/ \E d \in LifecycleInputs : CreatePayment(t, d)
    \/ \E n \in OrderNos : CreatePaymentInsert(t, n)
    \/ CreatePaymentCall(t)
    \/ CreatePaymentUpdate(t)
    \/ \E d \in CallbackInputs : HandleCallback(t, "CH_B", d)
    \/ HandleCallbackLog(t)
    \/ \E n \in OrderNos : QueryOrder(t, n)
    \/ QueryOrderCall(t)
    \/ QueryOrderUpdate(t)
    \/ \E n \in OrderNos : Refund(t, n)
    \/ RefundCall(t)
    \/ RefundRecord(t)
    \/ RefundUpdate(t)
    \/ ProcessExpiredOrders(t)
    \/ ProcessExpiredOrdersCancel(t)
    \/ Return(t)

Next ==
    \/ Initialize
    \/ Tick
    \/ \E t \in TaskIds : Requests(t)

Spec == Init /\ [][Next]_vars

\* order creation under administration: every order request, the plugin
\* status changed from the admin controller
NextCreate ==
    \/ Initialize
    \/ AdminInitialize
    \/ \E p \in PluginIds, st \in PluginStatuses : UpdatePluginStatus(p, st)
    \/ \E t \in TaskIds :
         \/ \E d \in OrderDataInputs : CreatePayment(t, d)
         \/ \E n \in OrderNos : CreatePaymentInsert(t, n)
         \/ CreatePaymentCall(t)
         \/ CreatePaymentUpdate(t)
         \/ Return(t)

SpecCreate == Init /\ [][NextCreate]_vars

\* ------------------------------------------------ channel selection
\* ConfigManager.updateChannel, called through the admin controller: the
\* given columns of the row are overwritten
UpdateChannel(c, upd) ==
    /\ adminInitialized
    /\ c \in DOMAIN channels
    /\ channels' = [channels EXCEPT ![c] = upd @@ @]
    /\ channels' # channels
    /\ channelCache' = Without(channelCache, {c})
    /\ UNCHANGED << initialized, pluginRecs, plugins, store, now, tasks,
                    adminInitialized, adminPlugins, configRows, configCache,
                    engineChannelCache,
                    wasSuccess >>

\* PaymentEngine.getAvailableChannels(filters): the rows handed back, kept in
\* snap until the caller has taken them
GetAvailableChannels(t, filters) ==
    /\ Idle(t)
    /\ tasks' = [tasks EXCEPT ![t] =
          LET begun == [IdleTask EXCEPT !.op = "getAvailableChannels",
                                        !.data = filters]
          IN IF ~initialized THEN Ended(begun, "throw:notInitialized")
             ELSE [Ended(begun, "ok") EXCEPT !.snap = getAvailableChannels(filters)]]
    /\ UNCHANGED << initialized, config, store, now, admin, wasSuccess >>

ChannelUpdates ==
    {[status |-> st] : st \in {"active", "inactive"}}
        \cup {[priority |-> pr] : pr \in {1, 2}}

\* filters of a channel listing: currency and amount, each possibly absent,
\* the amount a number or a text
FilterInputs ==
    {[currency |-> NULL, amount |-> None],
     [currency |-> "US_", amount |-> None],
     [currency |-> "USD", amount |-> Some(30)],
     [currency |-> "USD", amount |-> Some(500)],
     [currency |-> "USD", amount |-> Text(100)]}

\* order requests that differ in currency and amount, the amount a number
\* or a text
SelectInputs ==
    {[BaseOrder EXCEPT !.currency = "USD", !.amount = a] :
        a \in {Some(10), Some(30), Some(500), Text(100)}}
        \cup {[BaseOrder EXCEPT !.currency = c] : c \in {"USDT", "US_"}}

\* channel updates are made once the payment controller's engine has started
\* up: the selection reads the rows, never the preloaded copies
NextSelect ==
    \/ Initialize
    \/ AdminInitialize
    \/ \E c \in ChannelIds, upd \in ChannelUpdates :
          initialized /\ UpdateChannel(c, upd)
    \/ \E t \in TaskIds :
         \/ \E f \in FilterInputs : GetAvailableChannels(t, f)
         \/ \E d \in SelectInputs : CreatePayment(t, d)
         \/ \E n \in OrderNos : CreatePaymentInsert(t, n)
         \/ CreatePaymentCall(t)
         \/ CreatePaymentUpdate(t)
         \/ Return(t)

SpecSelect == Init /\ [][NextSelect]_vars

\* ---------------------------------------------------- order numbers
\* the numbers _generateOrderNo can yield while several orders are created
GeneratedNos == 1..MaxOrders

NextOrders ==
    \/ Initialize
    \/ \E t \in TaskIds :
         \/ \E d \in LifecycleInputs : CreatePayment(t, d)
         \/ \E n \in GeneratedNos : CreatePaymentInsert(t, n)
         \/ CreatePaymentCall(t)
         \/ CreatePaymentUpdate(t)
         \/ Return(t)

SpecOrders == Init /\ [][NextOrders]_vars

\* operations one at a time: a request is made only when every other slot
\* is free, and the clock stands still while one runs
Quiet(others) == \A u \in others : tasks[u].op = "idle"

SequentialRequests(t) ==
    \/ Quiet(TaskIds \ {t}) /\ CreatePayment(t, BaseOrder)
    \/ Quiet(TaskIds \ {t}) /\ \E n \in GeneratedNos : CreatePaymentInsert(t, n)
    \/ Quiet(TaskIds \ {t}) /\ CreatePaymentCall(t)
    \/ Quiet(TaskIds \ {t}) /\ CreatePaymentUpdate(t)
    \/ Quiet(TaskIds \ {t}) /\ \E n \in GeneratedNos : QueryOrder(t, n)
    \/ Quiet(TaskIds \ {t}) /\ QueryOrderCall(t)
    \/ Quiet(TaskIds \ {t}) /\ QueryOrderUpdate(t)
    \/ Quiet(TaskIds \ {t}) /\ \E n \in GeneratedNos : Refund(t, n)
    \/ Quiet(TaskIds \ {t}) /\ RefundCall(t)
    \/ Quiet(TaskIds \ {t}) /\ RefundRecord(t)
    \/ Quiet(TaskIds \ {t}) /\ RefundUpdate(t)
    \/ Quiet(TaskIds \ {t}) /\ ProcessExpiredOrders(t)
    \/ Quiet(TaskIds \ {t}) /\ ProcessExpiredOrdersCancel(t)
    \/ Quiet(TaskIds \ {t}) /\ Return(t)

NextSequential ==
    \/ Initialize
    \/ (\A u \in TaskIds : tasks[u].pc \in {"idle", "done"}) /\ Tick
    \/ \E t \in TaskIds : SequentialRequests(t)

SpecSequential == Init /\ [][NextSequential]_vars

\* the running system: ScheduleManager.start has registered the
\* process-expired-orders task and setPaymentEngine has handed it the engine
PaymentEngineSet == TRUE

\* the cron task fires: ScheduleManager.processExpiredOrders returns at once
\* without an engine, otherwise it runs the order manager's sweep
ScheduledSweep(t) == PaymentEngineSet /\ ProcessExpiredOrders(t)

SchedulerRequests(t) ==
    \/ CreatePayment(t, BaseOrder)
    \/ \E n \in OrderNos : CreatePaymentInsert(t, n)
    \/ CreatePaymentCall(t)
    \/ CreatePaymentUpdate(t)
    \/ \E n \in OrderNos : QueryOrder(t, n)
    \/ QueryOrderCall(t)
    \/ QueryOrderUpdate(t)
    \/ ScheduledSweep(t)
    \/ ProcessExpiredOrdersCancel(t)
    \/ Return(t)

NextScheduler ==
    \/ Initialize
    \/ Tick
    \/ \E t \in TaskIds : SchedulerRequests(t)

\* the cron task fires every five minutes whatever else runs; every awaited
\* call of a request in progress returns and its response is taken
SchedulerFairness ==
    /\ SF_vars(\E t \in TaskIds : ScheduledSweep(t))
    /\ \A t \in TaskIds :
          /\ WF_vars(ProcessExpiredOrdersCancel(t))
          /\ WF_vars(\E n \in OrderNos : CreatePaymentInsert(t, n))
          /\ WF_vars(CreatePaymentCall(t))
          /\ WF_vars(CreatePaymentUpdate(t))
          /\ WF_vars(QueryOrderCall(t))
          /\ WF_vars(QueryOrderUpdate(t))
          /\ WF_vars(Return(t))

SpecScheduler == Init /\ [][NextScheduler]_vars /\ SchedulerFairness

\* signing and verifying on their own: parameter maps with and without empty
\* fields, two secrets, every algorithm, and as received signature any
\* generated one in any letter case
SignatureParams ==
    [order_no : {0, 1}, status : {NULL, "success"}, trade_no : {Undefined, "T"}]

SecretKeys == {"KA", "KB"}

Signatures ==
    { [DigestHex(a, SignString(q, k)) EXCEPT !.letters = c] :
        q \in SignatureParams, k \in SecretKeys, a \in Algorithms, c \in LetterCases }

\* a call of generateSignature
Sign(t, params, secretKey, algorithm) ==
    /\ Idle(t)
    /\ tasks' = [tasks EXCEPT ![t] =
          [Ended([IdleTask EXCEPT !.op = "generateSignature",
                     !.data = [params |-> params, key |-> secretKey,
                               algorithm |-> algorithm]], "ok")
              EXCEPT !.returned = Some(GenerateSignature(params, secretKey, algorithm))]]
    /\ UNCHANGED << initialized, config, store, now, admin, wasSuccess >>

\* a call of verifySignature
Verify(t, params, signature, secretKey, algorithm) ==
    /\ Idle(t)
    /\ tasks' = [tasks EXCEPT ![t] =
          Ended([IdleTask EXCEPT !.op = "verifySignature",
                    !.data = [params |-> params, signature |-> signature,
                              key |-> secretKey, algorithm |-> algorithm]],
                IF VerifySignature(params, signature, secretKey, algorithm)
                THEN "true" ELSE "false")]
    /\ UNCHANGED << initialized, config, store, now, admin, wasSuccess >>

SignatureCalls(t) ==
    \/ Quiet(TaskIds \ {t})
         /\ \E q \in SignatureParams, k \in SecretKeys, a \in Algorithms :
               Sign(t, q, k, a)
    \/ Quiet(TaskIds \ {t})
         /\ \E q \in SignatureParams, sg \in Signatures,
                k \in SecretKeys, a \in Algorithms :
               Verify(t, q, sg, k, a)
    \/ Return(t)

NextSignature == \E t \in TaskIds : SignatureCalls(t)

SpecSignature == Init /\ [][NextSignature]_vars

\* a signed map of texts with one value changed afterwards
TextValues ==
    { [kind |-> "null", text |-> << >>], [kind |-> "undefined", text |-> << >>] }
    \cup [kind : {"string"},
          text : { << >>, << "1" >>, << "2" >>, << "1", "&", "b", "=", "2" >> }]
    \cup { [kind |-> "number", text |-> << "1" >>] }

\* generateSignature over params, then verifySignature of that signature over
\* params with the value of key k replaced by v
VerifyChanged(t, params, k, v, secretKey) ==
    /\ Idle(t)
    /\ tasks' = [tasks EXCEPT ![t] =
          Ended([IdleTask EXCEPT !.op = "verifyChanged",
                    !.data = [params |-> params,
                              changed |-> [params EXCEPT ![k] = v],
                              key |-> secretKey]],
                IF VerifySignature([params EXCEPT ![k] = v],
                                   GenerateSignature(params, secretKey, "sha256"),
                                   secretKey, "sha256")
                THEN "true" ELSE "false")]
    /\ UNCHANGED << initialized, config, store, now, admin, wasSuccess >>

NextChanged ==
    \/ \E t \in TaskIds :
         /\ Quiet(TaskIds \ {t})
         /\ \E q \in [{"a", "b"} -> TextValues], k \in {"a", "b"},
                v \in TextValues, sk \in SecretKeys :
               VerifyChanged(t, q, k, v, sk)
    \/ \E t \in TaskIds : Return(t)

SpecChanged == Init /\ [][NextChanged]_vars

\* ------------------------------------ requests under plugin administration
\* one request at a time on the payment engine, while the admin controller
\* changes plugin statuses at any moment
NextPlugin ==
    \/ Initialize
    \/ AdminInitialize
    \/ \E p \in PluginIds, st \in PluginStatuses : UpdatePluginStatus(p, st)
    \/ \E t \in TaskIds :
         \/ Quiet(TaskIds \ {t}) /\ CreatePayment(t, BaseOrder)
         \/ \E n \in OrderNos : CreatePaymentInsert(t, n)
         \/ CreatePaymentCall(t)
         \/ CreatePaymentUpdate(t)
         \/ \E d \in CallbackInputs :
              Quiet(TaskIds \ {t}) /\ HandleCallback(t, "CH_B", d)
         \/ HandleCallbackLog(t)
         \/ \E n \in OrderNos : Quiet(TaskIds \ {t}) /\ QueryOrder(t, n)
         \/ QueryOrderCall(t)
         \/ QueryOrderUpdate(t)
         \/ \E n \in OrderNos : Quiet(TaskIds \ {t}) /\ Refund(t, n)
         \/ RefundCall(t)
         \/ RefundRecord(t)
         \/ RefundUpdate(t)
         \/ Return(t)

SpecPlugin == Init /\ [][NextPlugin]_vars

\* ------------------------------------------------------- deleteChannel
\* paymentOrderModel.count({channel_id, status: ['pending', 'processing']})
UnfinishedOrders(c) ==
    Cardinality({ i \in 1..Len(orders) :
                    /\ orders[i].channel_id = c
                    /\ orders[i].status \in {"pending", "processing"} })

\* PaymentAdminController.deleteChannel up to its count: _ensureInitialized
\* and the check for unfinished orders
DeleteChannel(t, c) ==
    /\ Idle(t)
    /\ tasks' = [tasks EXCEPT ![t] =
          LET begun == [IdleTask EXCEPT !.op = "deleteChannel", !.data = c]
          IN IF ~adminInitialized THEN Ended(begun, "throw:notInitialized")
             ELSE IF UnfinishedOrders(c) > 0 THEN Ended(begun, "throw:unfinished")
             ELSE [begun EXCEPT !.pc = "destroy", !.chan = c]]
    /\ UNCHANGED << initialized, config, store, now, admin, wasSuccess >>

\* ConfigManager.deleteChannel: the channel's configs and its row are
\* destroyed (a row that is already gone is not an error), then
\* channelCache.delete(channelId) and configCache.delete(channelId), whose key
\* is the bare channel id
DeleteChannelDestroy(t) ==
    /\ At(t, "deleteChannel", "destroy")
    /\ configRows' = Without(configRows,
                             { ck \in DOMAIN configRows : ck[1] = tasks[t].chan })
    /\ channels' = Without(channels, {tasks[t].chan})
    /\ channelCache' = Without(channelCache, {tasks[t].chan})
    /\ configCache' = Without(configCache, {<< tasks[t].chan >>})
    /\ tasks' = [tasks EXCEPT ![t] = Ended(@, "ok")]
    /\ UNCHANGED << initialized, pluginRecs, plugins, store, now,
                    adminInitialized, adminPlugins, engineChannelCache,
                    wasSuccess >>

\* order creation while channels are deleted from the admin controller
NextDelete ==
    \/ Initialize
    \/ AdminInitialize
    \/ \E t \in TaskIds :
         \/ CreatePayment(t, BaseOrder)
         \/ \E n \in GeneratedNos : CreatePaymentInsert(t, n)
         \/ CreatePaymentCall(t)
         \/ CreatePaymentUpdate(t)
         \/ \E c \in ChannelIds : DeleteChannel(t, c)
         \/ DeleteChannelDestroy(t)
         \/ Return(t)

SpecDelete == Init /\ [][NextDelete]_vars

\* ----------------------------------------------------- unregisterPlugin
\* variant of the store without the foreign key of payment_channels.plugin_id
PluginRowUnreferenced(p) == FALSE

\* paymentChannelModel.belongsTo(paymentPluginModel, {foreignKey: 'plugin_id'})
\* on a column declared allowNull: false: the store refuses to delete a
\* plugin row that a channel row references
PluginRowReferenced(p) == \E c \in DOMAIN channels : channels[c].plugin_id = p

\* PluginManager.unregisterPlugin on the manager of one of the two engines:
\* the live instance is destroyed and dropped from the cache, then the
\* plugin row is destroyed; an error of the store is rethrown
UnregisterPlugin(t, p, manager) ==
    /\ Idle(t)
    /\ plugins' = IF manager = "payment" THEN plugins \ {p} ELSE plugins
    /\ adminPlugins' = IF manager = "admin" THEN adminPlugins \ {p}
                       ELSE adminPlugins
    /\ LET begun == [IdleTask EXCEPT !.op = "unregisterPlugin", !.data = p]
       IN IF PluginRowReferenced(p)
          THEN /\ tasks' = [tasks EXCEPT ![t] = Ended(begun, "throw:store")]
               /\ UNCHANGED pluginRecs
          ELSE /\ tasks' = [tasks EXCEPT ![t] = Ended(begun, "ok")]
               /\ pluginRecs' = [q \in DOMAIN pluginRecs \ {p} |-> pluginRecs[q]]
    /\ UNCHANGED << initialized, channels, store, now, adminInitialized,
                    caches, wasSuccess >>

\* plugins unregistered while channels are deleted
NextUnregister ==
    \/ Initialize
    \/ AdminInitialize
    \/ \E t \in TaskIds :
         \/ \E c \in ChannelIds : DeleteChannel(t, c)
         \/ DeleteChannelDestroy(t)
         \/ \E q \in PluginIds, m \in {"payment", "admin"} :
              UnregisterPlugin(t, q, m)
         \/ Return(t)

SpecUnregister == Init /\ [][NextUnregister]_vars

\* ------------------------------------------- createChannel, updateChannel
\* the id the store gives the next channel row
NewChannelId == 3

\* limits sent with a channel: absent, or a number
LimitInputs == {None, Some(0 - 5), Some(0), Some(10), Some(50)}

\* POST /channels: body('min_amount').optional().isFloat({min: 0}), the same
\* for max_amount; the two are not compared
ChannelBodyValid(d) ==
    /\ IF d.min_amount = None THEN TRUE ELSE d.min_amount[1] >= 0
    /\ IF d.max_amount = None THEN TRUE ELSE d.max_amount[1] >= 0

\* value || fallback on a limit: absent and 0 give the fallback
OrDefault(limit, fallback) ==
    IF limit = None \/ limit = Some(0) THEN fallback ELSE limit[1]

\* the route's validation, then ConfigManager.createChannel; its defaults
\* min_amount || 0.01 and max_amount || 999999.99 are 1 and 1000 in the
\* model's amount unit
CreateChannel(d) ==
    /\ adminInitialized
    /\ NewChannelId \notin DOMAIN channels
    /\ ChannelBodyValid(d)
    /\ channels' = channels @@
          (NewChannelId :>
             [channel_code |-> "CH_C", plugin_id |-> 1, status |-> "active",
              priority |-> 0, supported_currencies |-> {},
              min_amount |-> OrDefault(d.min_amount, 1),
              max_amount |-> OrDefault(d.max_amount, 1000),
              secret_key |-> "KC"])
    /\ UNCHANGED << initialized, pluginRecs, plugins, store, now, tasks, admin,
                    wasSuccess >>

\* bodies of PUT /channels/:channelId that change the limits
LimitUpdates ==
    {[min_amount |-> m] : m \in {0, 10, 200}}
        \cup {[max_amount |-> m] : m \in {0, 10, 200}}

NextLimits ==
    \/ AdminInitialize
    \/ \E mn, mx \in LimitInputs : CreateChannel([min_amount |-> mn, max_amount |-> mx])
    \/ \E c \in ChannelIds \cup {NewChannelId}, upd \in LimitUpdates :
          UpdateChannel(c, upd)

SpecLimits == Init /\ [][NextLimits]_vars

\* --------------------------------------------- channel configuration
\* ConfigManager.getChannel of the admin controller's engine
GetChannel(c) ==
    /\ adminInitialized
    /\ c \notin DOMAIN channelCache
    /\ c \in DOMAIN channels
    /\ channelCache' = (c :> LoadedChannel(c)) @@ channelCache
    /\ UNCHANGED << initialized, config, store, now, tasks, adminInitialized,
                    adminPlugins, configRows, configCache, engineChannelCache,
                    wasSuccess >>

\* values given to setChannelConfig: the text and isEncrypted
ConfigInputs == {<< "v1", FALSE >>, << "v2", TRUE >>}

\* ConfigManager.setChannelConfig: upsert of the row (refused by the store
\* for a channel that does not exist), then the two cache deletes
SetChannelConfig(c, k, v, isEncrypted) ==
    /\ adminInitialized
    /\ c \in DOMAIN channels
    /\ configRows' = (<< c, k >> :>
                        [config_value |-> IF isEncrypted THEN Encrypt(Plaintext(v))
                                          ELSE Plaintext(v),
                         is_encrypted |-> isEncrypted])
                      @@ configRows
    /\ configRows' # configRows
    /\ channelCache' = Without(channelCache, {c})
    /\ configCache' = Without(configCache, {<< c, k >>})
    /\ UNCHANGED << initialized, config, store, now, tasks, adminInitialized,
                    adminPlugins, engineChannelCache,
                    wasSuccess >>

\* ConfigManager.deleteChannelConfig
DeleteChannelConfig(c, k) ==
    /\ adminInitialized
    /\ << c, k >> \in DOMAIN configRows
    /\ configRows' = Without(configRows, {<< c, k >>})
    /\ channelCache' = Without(channelCache, {c})
    /\ configCache' = Without(configCache, {<< c, k >>})
    /\ UNCHANGED << initialized, config, store, now, tasks, adminInitialized,
                    adminPlugins, engineChannelCache,
                    wasSuccess >>

\* ConfigManager.getChannelConfig: the cached value if there is one, else the
\* row's value, decrypted and cached; null without a row
GetChannelConfig(t, c, k) ==
    /\ Idle(t)
    /\ adminInitialized
    /\ LET begun == [IdleTask EXCEPT !.op = "getChannelConfig", !.chan = c,
                                     !.data = k]
       IN IF << c, k >> \in DOMAIN configCache
          THEN /\ tasks' = [tasks EXCEPT ![t] =
                     [Ended(begun, "cached") EXCEPT
                         !.chan = c, !.returned = Some(configCache[<< c, k >>])]]
               /\ UNCHANGED configCache
          ELSE IF << c, k >> \notin DOMAIN configRows
          THEN /\ tasks' = [tasks EXCEPT ![t] =
                     [Ended(begun, "null") EXCEPT !.chan = c]]
               /\ UNCHANGED configCache
          ELSE /\ tasks' = [tasks EXCEPT ![t] =
                     [Ended(begun, "read") EXCEPT
                         !.chan = c,
                         !.returned = Some(Decrypted(configRows[<< c, k >>]))]]
               /\ configCache' = (<< c, k >> :> Decrypted(configRows[<< c, k >>]))
                                  @@ configCache
    /\ UNCHANGED << initialized, config, store, now, adminInitialized,
                    adminPlugins, configRows, channelCache, engineChannelCache,
                    wasSuccess >>

\* the admin controller's ConfigManager, one call at a time
NextCache ==
    \/ AdminInitialize
    \/ \E c \in ChannelIds :
          Quiet(TaskIds) /\ UpdateChannel(c, [status |-> "inactive"])
    \/ \E c \in ChannelIds : Quiet(TaskIds) /\ GetChannel(c)
    \/ \E c \in ChannelIds, k \in ConfigKeys, vi \in ConfigInputs :
          Quiet(TaskIds) /\ SetChannelConfig(c, k, vi[1], vi[2])
    \/ \E c \in ChannelIds, k \in ConfigKeys :
          Quiet(TaskIds) /\ DeleteChannelConfig(c, k)
    \/ \E t \in TaskIds :
         \/ \E c \in ChannelIds : Quiet(TaskIds \ {t}) /\ DeleteChannel(t, c)
         \/ DeleteChannelDestroy(t)
         \/ \E c \in ChannelIds, k \in ConfigKeys :
              Quiet(TaskIds \ {t}) /\ GetChannelConfig(t, c, k)
         \/ Return(t)

SpecCache == Init /\ [][NextCache]_vars

\* ------------------------------------- cache fills racing with writes
\* ConfigManager.getChannel up to the await of findByPk: a cached channel is
\* returned at once; otherwise the row is read (with its configs decrypted)
\* and kept in snap until the call goes on
GetChannelFind(t, c) ==
    /\ Idle(t)
    /\ adminInitialized
    /\ LET begun == [IdleTask EXCEPT !.op = "getChannel", !.chan = c]
       IN tasks' = [tasks EXCEPT ![t] =
            IF c \in DOMAIN channelCache
            THEN [Ended(begun, "cached") EXCEPT
                     !.chan = c, !.returned = Some(channelCache[c])]
            ELSE IF c \notin DOMAIN channels
            THEN [Ended(begun, "null") EXCEPT !.chan = c]
            ELSE [begun EXCEPT !.pc = "set", !.snap = LoadedChannel(c)]]
    /\ UNCHANGED << initialized, config, store, now, admin, wasSuccess >>

\* ConfigManager.getChannel after the await: channelCache.set(channelId,
\* channel) with the row as it was read
GetChannelSet(t) ==
    /\ At(t, "getChannel", "set")
    /\ channelCache' = (tasks[t].chan :> tasks[t].snap) @@ channelCache
    /\ tasks' = [tasks EXCEPT ![t] =
          [Ended(@, "read") EXCEPT
              !.chan = tasks[t].chan, !.returned = Some(tasks[t].snap)]]
    /\ UNCHANGED << initialized, config, store, now, adminInitialized,
                    adminPlugins, configRows, configCache, engineChannelCache,
                    wasSuccess >>

\* ConfigManager.getChannelConfig up to the await of findOne
GetChannelConfigFind(t, c, k) ==
    /\ Idle(t)
    /\ adminInitialized
    /\ LET begun == [IdleTask EXCEPT !.op = "getChannelConfig", !.chan = c,
                                     !.data = k]
       IN tasks' = [tasks EXCEPT ![t] =
            IF << c, k >> \in DOMAIN configCache
            THEN [Ended(begun, "cached") EXCEPT
                     !.chan = c, !.returned = Some(configCache[<< c, k >>])]
            ELSE IF << c, k >> \notin DOMAIN configRows
            THEN [Ended(begun, "null") EXCEPT !.chan = c]
            ELSE [begun EXCEPT !.pc = "set",
                               !.snap = Decrypted(configRows[<< c, k >>])]]
    /\ UNCHANGED << initialized, config, store, now, admin, wasSuccess >>

\* ConfigManager.getChannelConfig after the await: configCache.set(cacheKey,
\* value) with the value as it was read
GetChannelConfigSet(t) ==
    /\ At(t, "getChannelConfig", "set")
    /\ configCache' = (<< tasks[t].chan, tasks[t].data >> :> tasks[t].snap)
                         @@ configCache
    /\ tasks' = [tasks EXCEPT ![t] =
          [Ended(@, "read") EXCEPT
              !.chan = tasks[t].chan, !.returned = Some(tasks[t].snap)]]
    /\ UNCHANGED << initialized, config, store, now, adminInitialized,
                    adminPlugins, configRows, channelCache, engineChannelCache,
                    wasSuccess >>

\* the statuses PUT /channels/:channelId writes here
StatusUpdates == {[status |-> "active"], [status |-> "inactive"]}

\* the channel whose reads and writes are interleaved
RaceChannels == {1}

\* reads of the admin controller's ConfigManager interleaved with its writes
NextRace ==
    \/ AdminInitialize
    \/ \E c \in RaceChannels, upd \in StatusUpdates : UpdateChannel(c, upd)
    \/ \E c \in RaceChannels, k \in ConfigKeys, vi \in ConfigInputs :
          SetChannelConfig(c, k, vi[1], vi[2])
    \/ \E c \in RaceChannels, k \in ConfigKeys : DeleteChannelConfig(c, k)
    \/ \E t \in TaskIds :
         \/ \E c \in RaceChannels : GetChannelFind(t, c)
         \/ GetChannelSet(t)
         \/ \E c \in RaceChannels, k \in ConfigKeys : GetChannelConfigFind(t, c, k)
         \/ GetChannelConfigSet(t)
         \/ Return(t)

SpecRace == Init /\ [][NextRace]_vars

\* ------------------------- admin writes observed by the payment engine
\* PaymentAdminController.clearCache(channelId): ConfigManager.clearCache on
\* the admin controller's engine; without a channel id (0 here) both caches
\* are emptied, with one the channel and its config keys are dropped
ClearCache(target) ==
    /\ adminInitialized
    /\ channelCache' = IF target = 0 THEN << >>
                       ELSE Without(channelCache, {target})
    /\ configCache' = IF target = 0 THEN << >>
                      ELSE Without(configCache,
                              { ck \in DOMAIN configCache : ck[1] = target })
    /\ UNCHANGED << initialized, config, store, now, tasks, adminInitialized,
                    adminPlugins, configRows, engineChannelCache, wasSuccess >>

\* the channel the orders of this specification are created on
ObservedChannels == {2}

\* bodies of PUT /channels/:channelId that change the priority
PriorityUpdates == {[priority |-> pr] : pr \in {1, 2}}

\* payments, queries and refunds one at a time on the payment controller,
\* channel and config writes on the admin controller in between
NextObserve ==
    \/ Initialize
    \/ AdminInitialize
    \/ \E c \in ObservedChannels, upd \in PriorityUpdates :
          Quiet(TaskIds) /\ UpdateChannel(c, upd)
    \/ \E c \in ObservedChannels, k \in ConfigKeys, vi \in ConfigInputs :
          Quiet(TaskIds) /\ SetChannelConfig(c, k, vi[1], vi[2])
    \/ \E c \in ObservedChannels, k \in ConfigKeys :
          Quiet(TaskIds) /\ DeleteChannelConfig(c, k)
    \/ \E target \in ObservedChannels \cup {0} :
          Quiet(TaskIds) /\ ClearCache(target)
    \/ \E t \in TaskIds :
         \/ Quiet(TaskIds \ {t}) /\ CreatePayment(t, BaseOrder)
         \/ \E n \in OrderNos : CreatePaymentInsert(t, n)
         \/ CreatePaymentCall(t)
         \/ CreatePaymentUpdate(t)
         \/ \E n \in OrderNos : Quiet(TaskIds \ {t}) /\ QueryOrder(t, n)
         \/ QueryOrderCall(t)
         \/ QueryOrderUpdate(t)
         \/ \E n \in OrderNos : Quiet(TaskIds \ {t}) /\ Refund(t, n)
         \/ RefundCall(t)
         \/ RefundRecord(t)
         \/ RefundUpdate(t)
         \/ Return(t)

SpecObserve == Init /\ [][NextObserve]_vars

\* ------------------------------------------- an initialize that fails
\* the managers whose initialize can throw: configManager (the preload) and
\* pluginManager (directory, scan, load); orderManager.initialize only sets
\* a flag
InitStages == {"config", "plugins"}

\* variant of initialize that sets the flag whatever the managers did
CompletedAlways(stage) == TRUE

\* PaymentEngine.initialize reaches this.initialized = true only when no
\* manager's initialize threw
Completed(stage) == stage \notin InitStages

\* PaymentEngine.initialize when the initialize of manager stage throws: the
\* preload has cached some of the active channels (all of them when the
\* plugin manager is the one that throws), the plugin manager has loaded and
\* marked some of the active plugins; the error is rethrown
InitializeFails(stage) ==
    /\ ~initialized
    /\ IF stage = "config"
       THEN /\ \E done \in SUBSET DOMAIN PreloadActiveChannels :
                 engineChannelCache' =
                     [c \in done |-> LoadedChannel(c)] @@ engineChannelCache
            /\ UNCHANGED << plugins, pluginRecs >>
       ELSE /\ engineChannelCache' = PreloadActiveChannels @@ engineChannelCache
            /\ \E loaded \in SUBSET ActivePlugins, failed \in SUBSET ActivePlugins :
                 /\ plugins' = plugins \cup loaded
                 /\ pluginRecs' = LoadActivePlugins(failed)
    /\ initialized' = Completed(stage)
    /\ UNCHANGED << channels, store, now, tasks, adminInitialized, adminPlugins,
                    configRows, channelCache, configCache, wasSuccess >>

\* the operations of the payment engine
EngineOps ==
    {"createPayment", "handleCallback", "queryOrder", "refund",
     "getAvailableChannels"}

\* the payment controller's engine from its construction on: initialize
\* fails or completes, requests arrive before and after, one at a time
NextStartup ==
    \/ Initialize
    \/ \E stage \in InitStages : InitializeFails(stage)
    \/ \E t \in TaskIds :
         \/ Quiet(TaskIds \ {t}) /\ CreatePayment(t, BaseOrder)
         \/ \E n \in OrderNos : CreatePaymentInsert(t, n)
         \/ CreatePaymentCall(t)
         \/ CreatePaymentUpdate(t)
         \/ \E d \in CallbackInputs :
              Quiet(TaskIds \ {t}) /\ HandleCallback(t, "CH_B", d)
         \/ HandleCallbackLog(t)
         \/ \E n \in OrderNos : Quiet(TaskIds \ {t}) /\ QueryOrder(t, n)
         \/ QueryOrderCall(t)
         \/ QueryOrderUpdate(t)
         \/ \E n \in OrderNos : Quiet(TaskIds \ {t}) /\ Refund(t, n)
         \/ RefundCall(t)
         \/ RefundRecord(t)
         \/ RefundUpdate(t)
         \/ \E f \in FilterInputs :
              Quiet(TaskIds \ {t}) /\ GetAvailableChannels(t, f)
         \/ Return(t)

SpecStartup == Init /\ [][NextStartup]_vars

\* ------------------------------------------------ the plugin loader
\* PluginManager.getPlugin(pluginId) on the payment engine's manager
GetPlugin(t, p) ==
    /\ Idle(t)
    /\ \E loadOk \in BOOLEAN :
         LET out == GetPluginOutcome(p, loadOk)
         IN /\ tasks' = [tasks EXCEPT ![t] =
                  Ended([IdleTask EXCEPT !.op = "getPlugin", !.data = p], out)]
            /\ plugins' = PluginsAfter(p, out)
    /\ UNCHANGED << initialized, pluginRecs, channels, store, now, admin,
                    wasSuccess >>

\* a registry of two plugins, both active
LoaderPluginIds == {1, 2}

InitLoader ==
    /\ initialized = FALSE
    /\ pluginRecs = [p \in LoaderPluginIds |-> [status |-> "active"]]
    /\ plugins = {}
    /\ channels = InitChannels
    /\ orders = << >>
    /\ transactions = << >>
    /\ callbacks = << >>
    /\ now = 0
    /\ tasks = [t \in TaskIds |-> IdleTask]
    /\ adminInitialized = FALSE
    /\ adminPlugins = {}
    /\ configRows = << >>
    /\ channelCache = << >>
    /\ configCache = << >>
    /\ engineChannelCache = << >>
    /\ wasSuccess = {}

NextLoader ==
    \/ Initialize
    \/ AdminInitialize
    \/ \E p \in LoaderPluginIds, st \in PluginStatuses : UpdatePluginStatus(p, st)
    \/ \E t \in TaskIds, p \in LoaderPluginIds : GetPlugin(t, p)
    \/ \E t \in TaskIds : Return(t)

SpecLoader == InitLoader /\ [][NextLoader]_vars

\* ------------------------------------------- the two status mappings
\* one provider status put through the switch of UsdtPay.handleCallback
MapInCallback(t, raw) ==
    /\ Idle(t)
    /\ tasks' = [tasks EXCEPT ![t] =
          [IdleTask EXCEPT !.op = "mapStatus", !.pc = "query", !.data = raw,
                           !.res = CallbackStatus(raw)]]
    /\ UNCHANGED << initialized, config, store, now, admin, wasSuccess >>

\* and then through the switch of UsdtPay.queryOrder
MapInQuery(t) ==
    /\ At(t, "mapStatus", "query")
    /\ tasks' = [tasks EXCEPT ![t] =
          [@ EXCEPT !.pc = "done", !.result = QueryStatus(tasks[t].data)]]
    /\ UNCHANGED << initialized, config, store, now, admin, wasSuccess >>

NextMapping ==
    \/ \E t \in TaskIds, raw \in ProviderStatuses : MapInCallback(t, raw)
    \/ \E t \in TaskIds : MapInQuery(t)
    \/ \E t \in TaskIds : Return(t)

SpecMapping == Init /\ [][NextMapping]_vars

\* ------------------------------------------ POST /callback/:channelCode
\* how paymentEngine.handleCallback may end for the controller: it throws
\* (channel, plugin, store, plugin code), returns the signature failure
\* {success: false, message}, or returns the plugin's result
EngineCallbackOutcomes ==
    {"throw:channel", "throw:plugin", "throw:store", "throw:provider",
     "fail:signature", "fail:plugin", "ok"}

\* PaymentController.handleCallback: _ensureInitialized is outside the try;
\* an error of the engine is turned into a failure result
ControllerHandleCallback(ready, outcome) ==
    IF ~ready
    THEN [thrown |-> TRUE, success |-> FALSE, response |-> NULL]
    ELSE CASE outcome = "ok" ->
                [thrown |-> FALSE, success |-> TRUE, response |-> "SUCCESS"]
           [] outcome = "fail:signature" ->
                [thrown |-> FALSE, success |-> FALSE, response |-> NULL]
           [] OTHER ->
                [thrown |-> FALSE, success |-> FALSE, response |-> "FAIL"]

\* variant of the route that forgets res.status(400)
CallbackRouteAlwaysOk(r) ==
    IF r.thrown THEN [status |-> 500, body |-> "FAIL"]
    ELSE [status |-> 200,
          body |-> IF r.response # NULL THEN r.response
                   ELSE IF r.success THEN "SUCCESS" ELSE "FAIL"]

\* the route: res.send(result.response || 'SUCCESS'),
\* res.status(400).send(result.response || 'FAIL'), and in its catch
\* res.status(500).send('FAIL')
CallbackRoute(r) ==
    IF r.thrown THEN [status |-> 500, body |-> "FAIL"]
    ELSE IF r.success
    THEN [status |-> 200, body |-> IF r.response # NULL THEN r.response ELSE "SUCCESS"]
    ELSE [status |-> 400, body |-> IF r.response # NULL THEN r.response ELSE "FAIL"]

\* a callback request reaches the controller; the engine ends with outcome
CallbackRequest(t, d, outcome) ==
    /\ Idle(t)
    /\ tasks' = [tasks EXCEPT ![t] =
          [IdleTask EXCEPT !.op = "callbackRoute", !.pc = "respond", !.data = d,
             !.result = IF initialized THEN outcome ELSE "throw:notInitialized",
             !.returned = Some(ControllerHandleCallback(initialized, outcome))]]
    /\ UNCHANGED << initialized, config, store, now, admin, wasSuccess >>

\* the route sends its response
CallbackRespond(t) ==
    /\ At(t, "callbackRoute", "respond")
    /\ tasks' = [tasks EXCEPT ![t] =
          [@ EXCEPT !.pc = "done",
                    !.returned = Some(CallbackRoute(tasks[t].returned[1]))]]
    /\ UNCHANGED << initialized, config, store, now, admin, wasSuccess >>

NextRespond ==
    \/ Initialize
    \/ \E t \in TaskIds : \E d \in CallbackInputs, o \in EngineCallbackOutcomes :
          CallbackRequest(t, d, o)
    \/ \E t \in TaskIds : CallbackRespond(t)
    \/ \E t \in TaskIds : Return(t)

SpecRespond == Init /\ [][NextRespond]_vars

\* -------------------------------------------------------------- properties
\* task t takes its step from label l of operation o
Stepped(t, o, l) == At(t, o, l) /\ tasks'[t] # tasks[t]

\* task t starts operation o
Began(t, o) == tasks[t].op = "idle" /\ tasks'[t].op = o

Terminal == {"failed", "cancelled", "refunded"}

\* C1: across createPayment, handleCallback, queryOrder, refund and the expiry
\* sweep, an order in failed, cancelled or refunded never changes status
\* again, and an order in success changes status only to refunded.
C1_SettledStatusesStay ==
    [][\A i \in 1..Len(orders) :
          /\ orders[i].status \in Terminal
                => orders'[i].status = orders[i].status
          /\ orders[i].status = "success"
                => orders'[i].status \in {"success", "refunded"}]_vars

\* C2: a callback whose signature does not verify ends handleCallback with a
\* result of success = false, changes no order, never reaches
\* plugin.handleCallback, and leaves its audit record with is_verified = false
\* and is_processed = false.
C2_RejectedCallbackIsAudited ==
    [][\A t \in TaskIds :
          (/\ Stepped(t, "handleCallback", "log")
           /\ ~VerifyCallback(tasks[t].data, channels[tasks[t].chan]))
          => /\ tasks'[t].result = "fail:signature"
             /\ orders' = orders
             /\ "handleCallback" \notin tasks'[t].calls
             /\ Len(callbacks') = Len(callbacks) + 1
             /\ ~callbacks'[Len(callbacks')].is_verified
             /\ ~callbacks'[Len(callbacks')].is_processed]_vars

\* C3: handleCallback with a validly signed callback reporting success for an
\* existing pending order ends with the order in success with paid_at set and
\* with exactly one audit record for the callback, is_verified = true and
\* is_processed = true.
C3_ValidCallbackSettlesOrder ==
    [][\A t \in TaskIds :
          LET d == tasks[t].data
              o == GetOrderByNo(d.order_no)
          IN (/\ Stepped(t, "handleCallback", "log")
              /\ VerifyCallback(d, channels[tasks[t].chan])
              /\ d.status = "success"
              /\ o # 0
              /\ orders[o].status = "pending")
             => /\ tasks'[t].result = "ok"
                /\ orders'[o].status = "success"
                /\ orders'[o].paid_at # None
                /\ Len(callbacks') = Len(callbacks) + 1
                /\ callbacks'[Len(callbacks')].is_verified
                /\ callbacks'[Len(callbacks')].is_processed]_vars

C5_RefundNeedsSuccess ==
    [][\A t \in TaskIds :
          LET o == GetOrderByNo(tasks'[t].data)
          IN (Began(t, "refund") /\ o # 0 /\ orders[o].status # "success")
             => /\ tasks'[t].pc = "done"
                /\ tasks'[t].result = "throw:state"
                /\ tasks'[t].calls = {}
                /\ transactions' = transactions
                /\ orders' = orders]_vars

\* a refund was rejected for an order that has left the open statuses
C5_Witness ==
    \E t \in TaskIds :
        /\ tasks[t].op = "refund" /\ tasks[t].result = "throw:state"
        /\ tasks[t].oid # 0
        /\ orders[tasks[t].oid].status \in Terminal

\* C6: every refunded order was in success in an earlier state and has a
\* refund transaction that reports success, and a refund whose result status
\* is not success does not change the order.
C6_RefundedOnlyAfterSuccess ==
    /\ [](\A i \in 1..Len(orders) :
            orders[i].status = "refunded"
            => /\ i \in wasSuccess
               /\ \E k \in 1..Len(transactions) :
                    /\ transactions[k].order_id = i
                    /\ transactions[k].type = "refund"
                    /\ transactions[k].status = "success")
    /\ [][\A t \in TaskIds :
            (/\ tasks'[t].op = "refund" /\ tasks'[t] # tasks[t]
             /\ orders' # orders)
            => /\ tasks[t].res = "success"
               /\ tasks'[t].result = "success"
               /\ orders'[tasks[t].oid].status = "refunded"]_vars

\* an order is refunded, and another refund of it ended with a result that
\* is not success
C6_Witness ==
    \E t \in TaskIds, i \in 1..Len(orders) :
        /\ orders[i].status = "refunded"
        /\ tasks[t].op = "refund" /\ tasks[t].pc = "done"
        /\ tasks[t].oid = i /\ tasks[t].result = "failed"

\* C7: every refund that has delegated to the plugin has recorded a
\* refund-type transaction for the order, also when plugin.refund fails.
C7_DelegatedRefundIsRecorded ==
    \A t \in TaskIds :
        (/\ tasks[t].op = "refund" /\ tasks[t].pc = "done"
         /\ "refund" \in tasks[t].calls)
        => \E k \in 1..Len(transactions) :
             /\ transactions[k].order_id = tasks[t].oid
             /\ transactions[k].type = "refund"

\* the malformed requests of C8
Malformed(d) ==
    \/ d.merchant_order_no = NULL
    \/ d.currency = NULL
    \/ d.subject = NULL
    \/ d.amount = None
    \/ d.amount[1] <= 0

\* C8: createPayment with a missing merchant order number, currency or
\* subject, or with a missing, zero or negative amount, fails at once with an
\* error: no channel or plugin is resolved, no order is persisted and no
\* plugin operation is invoked.
C8_MalformedRequestFailsFirst ==
    /\ [](\A t \in TaskIds :
            (tasks[t].op = "createPayment" /\ Malformed(tasks[t].data))
            => /\ tasks[t].pc = "done"
               /\ tasks[t].result \in {"throw:validation", "throw:notInitialized"}
               /\ tasks[t].oid = 0
               /\ tasks[t].calls = {})
    /\ [][\A t \in TaskIds :
            (Began(t, "createPayment") /\ Malformed(tasks'[t].data))
            => /\ orders' = orders
               /\ plugins' = plugins]_vars

\* a request with a negative amount and one without a subject were refused
\* by the initialized engine
C8_Witness ==
    \E t, u \in TaskIds :
        /\ tasks[t].op = "createPayment" /\ tasks[t].result = "throw:validation"
        /\ tasks[t].data.amount = Some(0 - 5)
        /\ tasks[u].op = "createPayment" /\ tasks[u].result = "throw:validation"
        /\ tasks[u].data.subject = NULL

\* the filtered candidate set of C9: active channels of an active plugin that
\* support the currency and whose limits admit the amount
Candidates(d) ==
    { c \in DOMAIN channels :
        /\ channels[c].status = "active"
        /\ pluginRecs[channels[c].plugin_id].status = "active"
        /\ d.currency \in channels[c].supported_currencies
        /\ channels[c].min_amount <= d.amount[1]
        /\ d.amount[1] <= channels[c].max_amount }

SelectionFails(d) ==
    \/ Candidates(d) = {}
    \/ /\ d.channel_code # NULL
       /\ \A c \in Candidates(d) : channels[c].channel_code # d.channel_code

\* C9: when channel selection fails, or the plugin of the selected channel
\* cannot be obtained, createPayment fails with an error, persists no order
\* and never invokes plugin.createOrder; an order row is inserted only by a
\* task that holds a candidate channel whose plugin instance is loaded.
C9_NoOrderWithoutChannelAndPlugin ==
    /\ [][\A t \in TaskIds :
            LET d == tasks'[t].data
            IN (Began(t, "createPayment") /\ initialized /\ ~Malformed(d))
               => /\ orders' = orders
                  /\ tasks'[t].calls = {}
                  /\ SelectionFails(d)
                       => /\ tasks'[t].pc = "done"
                          /\ tasks'[t].result = "throw:channel"
                  /\ ~SelectionFails(d)
                       => \/ /\ tasks'[t].pc = "done"
                             /\ tasks'[t].result = "throw:plugin"
                             /\ \E c \in Candidates(d) :
                                  channels[c].plugin_id \notin plugins'
                          \/ /\ tasks'[t].pc = "insert"
                             /\ tasks'[t].chan \in Candidates(d)
                             /\ channels[tasks'[t].chan].plugin_id \in plugins']_vars
    /\ [][\A t \in TaskIds :
            (tasks'[t] # tasks[t] /\ Len(orders') > Len(orders))
            => /\ At(t, "createPayment", "insert")
               /\ tasks[t].chan \in DOMAIN channels
               /\ channels[tasks[t].chan].plugin_id \in plugins
               /\ orders'[Len(orders')].channel_id = tasks[t].chan]_vars
    /\ [](\A t \in TaskIds :
            (/\ tasks[t].op = "createPayment"
             /\ tasks[t].result \in {"throw:channel", "throw:plugin"})
            => tasks[t].oid = 0 /\ tasks[t].calls = {})

\* one request failed because its plugin could not be obtained, another
\* because the requested channel is not among the candidates
C9_Witness ==
    \E t, u \in TaskIds :
        /\ tasks[t].op = "createPayment" /\ tasks[t].result = "throw:plugin"
        /\ tasks[u].op = "createPayment" /\ tasks[u].result = "throw:channel"
        /\ tasks[u].data.channel_code # NULL
        /\ Len(orders) = 0

\* C10: when plugin.createOrder or the order update after it fails,
\* createPayment ends with an error and takes no further step; the row it
\* inserted as pending is not written by it, and the expiry sweep selects
\* every expired pending order and cancels it.
C10_FailedCreationLeavesPendingOrder ==
    /\ [][\A t \in TaskIds :
            /\ (Stepped(t, "createPayment", "insert") /\ tasks'[t].oid # 0)
                 => orders'[tasks'[t].oid].status = "pending"
            /\ (/\ tasks[t].op = "createPayment"
                /\ tasks[t].pc \in {"call", "update"}
                /\ tasks'[t].pc = "done" /\ tasks'[t].result # "ok")
                 => /\ tasks'[t].result \in {"throw:provider", "throw:store"}
                    /\ orders' = orders
            /\ (tasks[t].op = "createPayment" /\ tasks[t].pc = "done")
                 => tasks'[t] \in {tasks[t], IdleTask}
            /\ Began(t, "sweep")
                 => \A i \in 1..Len(orders) :
                      (orders[i].status = "pending" /\ orders[i].expired_at < now)
                      => /\ tasks'[t].pc = "cancel"
                         /\ \E k \in 1..Len(tasks'[t].snap) : tasks'[t].snap[k] = i
            /\ Stepped(t, "sweep", "cancel")
                 => orders'[Head(tasks[t].snap)].status = "cancelled"]_vars
    /\ [](\A t \in TaskIds :
            (/\ tasks[t].op = "createPayment" /\ tasks[t].pc = "done"
             /\ tasks[t].oid # 0 /\ tasks[t].result # "ok")
            => orders[tasks[t].oid].gateway_order_no = NULL)

\* the order of a creation that failed at the provider was cancelled by the
\* sweep
C10_Witness ==
    \E t \in TaskIds :
        /\ tasks[t].op = "createPayment" /\ tasks[t].result = "throw:provider"
        /\ tasks[t].oid # 0
        /\ orders[tasks[t].oid].status = "cancelled"
        /\ orders[tasks[t].oid].gateway_order_no = NULL

\* what C11 requires of channel c for a request with currency and amount f
Admits(c, f) ==
    /\ channels[c].status = "active"
    /\ pluginRecs[channels[c].plugin_id].status = "active"
    /\ (f.currency # NULL => f.currency \in channels[c].supported_currencies)
    /\ (f.amount # None =>
          /\ channels[c].min_amount <= f.amount[1]
          /\ f.amount[1] <= channels[c].max_amount)

\* C11: every channel returned by getAvailableChannels(filters), and every
\* channel createPayment selects, is active, has an active plugin, supports
\* the requested currency and has min_amount <= requested amount <= max_amount.
C11_SelectedChannelsAreEligible ==
    [][\A t \in TaskIds :
          /\ (Began(t, "getAvailableChannels") /\ tasks'[t].result = "ok")
               => \A k \in 1..Len(tasks'[t].snap) :
                    Admits(tasks'[t].snap[k], tasks'[t].data)
          /\ (Began(t, "createPayment") /\ tasks'[t].pc = "insert")
               => Admits(tasks'[t].chan, tasks'[t].data)]_vars

\* C12: without an explicit channel code createPayment takes, among the
\* candidates of the channel query, the one with the greatest priority and,
\* among those of equal priority, the one created first; this fixes the
\* choice as a function of the candidate set.
C12_HighestPriorityEarliestCreated ==
    [][\A t \in TaskIds :
          LET d == tasks'[t].data
              cands == Eligible([currency |-> d.currency, amount |-> d.amount])
              c == tasks'[t].chan
          IN (/\ Began(t, "createPayment") /\ tasks'[t].pc = "insert"
              /\ d.channel_code = NULL)
             => /\ c \in cands
                /\ \A b \in cands \ {c} :
                     \/ channels[c].priority > channels[b].priority
                     \/ /\ channels[c].priority = channels[b].priority
                        /\ c < b]_vars

\* both channels are candidates of equal priority and the request went to
\* the one created first
C12_Witness ==
    \E t \in TaskIds :
        /\ tasks[t].op = "createPayment" /\ tasks[t].pc = "insert"
        /\ tasks[t].data.channel_code = NULL
        /\ tasks[t].chan = 1
        /\ Eligible([currency |-> tasks[t].data.currency,
                     amount |-> tasks[t].data.amount]) = {1, 2}
        /\ channels[1].priority = channels[2].priority

\* C13: no two persisted orders share an order_no, and the order_no of the
\* row a createPayment inserts (the one it returns on success) differs from
\* the order_no of every order created before it.
C13_OrderNoUnique ==
    /\ [](\A i, j \in 1..Len(orders) :
            i # j => orders[i].order_no # orders[j].order_no)
    /\ [][\A t \in TaskIds :
            (Stepped(t, "createPayment", "insert") /\ Len(orders') > Len(orders))
            => /\ tasks'[t].oid = Len(orders')
               /\ \A i \in 1..Len(orders) :
                    /\ orders'[i] = orders[i]
                    /\ orders[i].order_no # orders'[Len(orders')].order_no]_vars
    /\ [](\A t \in TaskIds :
            (tasks[t].op = "createPayment" /\ tasks[t].result = "ok")
            => \A i \in 1..Len(orders) :
                 i # tasks[t].oid
                 => orders[i].order_no # orders[tasks[t].oid].order_no)

\* two orders exist and the createPayment that made the second has returned
\* with success
C13_Witness ==
    \E t \in TaskIds :
        /\ tasks[t].op = "createPayment" /\ tasks[t].result = "ok"
        /\ tasks[t].oid = 2
        /\ Len(orders) = 2

\* C14: when the generated order number collides with an existing one, the
\* existing record is not altered and creation still succeeds (with a fresh
\* number): the createOrder step of createPayment always ends with a new row.
C14_CollisionIsRetried ==
    [][\A t \in TaskIds :
          Stepped(t, "createPayment", "insert")
          => /\ Len(orders') = Len(orders) + 1
             /\ tasks'[t].pc = "call"
             /\ \A i \in 1..Len(orders) : orders'[i] = orders[i]]_vars

C16_SweepSparesSuccess ==
    [][\A t \in TaskIds : Stepped(t, "sweep", "cancel")
          => \A i \in 1..Len(orders) :
                orders[i].status = "success" => orders'[i].status = "success"]_vars

C18_SettledOrderIsReturnedAsStored ==
    [][\A t \in TaskIds :
          /\ Began(t, "queryOrder")
               => LET o == GetOrderByNo(tasks'[t].data)
                  IN  /\ (o # 0 /\ orders[o].status \notin {"pending", "processing"})
                           => /\ tasks'[t].pc = "done"
                              /\ tasks'[t].result = orders[o].status
                              /\ tasks'[t].returned = Some(orders[o])
                              /\ tasks'[t].calls = {}
                              /\ store' = store
                              /\ plugins' = plugins
                      /\ o = 0
                           => /\ tasks'[t].pc = "done"
                              /\ tasks'[t].result =
                                    IF initialized THEN "throw:notFound"
                                    ELSE "throw:notInitialized"
                              /\ tasks'[t].calls = {}
                              /\ store' = store
                              /\ plugins' = plugins
          /\ (tasks[t].op = "queryOrder" /\ tasks[t].pc = "done")
               => tasks'[t] \in {tasks[t], IdleTask}]_vars

\* one query found the order in success and returned it without a plugin
\* call, another named an order that does not exist
C18_Witness ==
    \E t, u \in TaskIds :
        /\ tasks[t].op = "queryOrder" /\ tasks[t].pc = "done"
        /\ tasks[t].result = "success" /\ tasks[t].calls = {}
        /\ tasks[t].returned = Some(orders[tasks[t].oid])
        /\ tasks[u].op = "queryOrder" /\ tasks[u].result = "throw:notFound"

\* C19: with requests running one at a time, queryOrder on a pending or
\* processing order, once it has its plugin, calls plugin.queryOrder; when
\* the mapped status differs from the stored one it writes status,
\* gateway_trade_no and paid_at to the order before it returns; and the order
\* it returns equals the stored order in status, gateway_trade_no and paid_at.
C19_ReturnedOrderEqualsPersisted ==
    [][\A t \in TaskIds :
          /\ Stepped(t, "queryOrder", "call")
               => /\ "queryOrder" \in tasks'[t].calls
                  /\ orders' = orders
          /\ Stepped(t, "queryOrder", "update")
               => LET o == tasks[t].oid
                      r == tasks[t].res
                  IN  /\ r.status # orders[o].status
                      /\ orders'[o].status = r.status
                      /\ orders'[o].gateway_trade_no = r.gateway_trade_no
                      /\ orders'[o].paid_at = r.paid_at
                      /\ tasks'[t].pc = "done"
          /\ (tasks[t].op = "queryOrder" /\ tasks[t].pc \in {"call", "update"}
              /\ tasks'[t].pc = "done" /\ tasks'[t].result \notin {"throw:provider"})
               => LET o == tasks[t].oid
                      got == tasks'[t].returned[1]
                  IN  /\ got.status = orders'[o].status
                      /\ got.gateway_trade_no = orders'[o].gateway_trade_no
                      /\ got.paid_at = orders'[o].paid_at]_vars

\* two hexadecimal texts that differ at most in letter case
SameIgnoringCase(a, b) == a.alg = b.alg /\ a.of = b.of

\* C20: for every parameter map, secret key and digest algorithm,
\* verifySignature of the signature that generateSignature gives for the same
\* parameters, key and algorithm is true, and verifySignature of a signature
\* that differs from the generated one in more than letter case is false.
C20_SignatureRoundTrip ==
    \A t \in TaskIds :
        (tasks[t].op = "verifySignature" /\ tasks[t].pc = "done")
        => LET d == tasks[t].data
               g == GenerateSignature(d.params, d.key, d.algorithm)
           IN  /\ d.signature = g => tasks[t].result = "true"
               /\ ~SameIgnoringCase(d.signature, g) => tasks[t].result = "false"

\* a generated sha256 signature of a map with an empty field was verified
C20_Witness ==
    \E t \in TaskIds :
        /\ tasks[t].op = "verifySignature" /\ tasks[t].pc = "done"
        /\ tasks[t].data.algorithm = "sha256"
        /\ tasks[t].data.params.status = NULL
        /\ tasks[t].data.signature =
              GenerateSignature(tasks[t].data.params, tasks[t].data.key, "sha256")
        /\ tasks[t].result = "true"

\* C21: changing the value of one parameter of a signed map, to or from an
\* empty string, null or undefined included, makes verification against the
\* original signature fail: the two maps do not give the same signing string.
C21_ChangedValueFailsVerification ==
    \A t \in TaskIds :
        (/\ tasks[t].op = "verifyChanged" /\ tasks[t].pc = "done"
         /\ tasks[t].data.changed # tasks[t].data.params)
        => /\ tasks[t].result = "false"
           /\ SignString(tasks[t].data.changed, tasks[t].data.key)
                # SignString(tasks[t].data.params, tasks[t].data.key)

\* C22: an order in success always has a paid_at; an order enters success
\* only in a step of handleCallback or queryOrder, never in createPayment's
\* own update; and a paid_at that is set is not cleared by a later write.
C22_SuccessCarriesPaidAt ==
    /\ [](\A i \in 1..Len(orders) :
            orders[i].status = "success" => orders[i].paid_at # None)
    /\ [][\A i \in 1..Len(orders) :
            /\ (orders[i].status # "success" /\ orders'[i].status = "success")
                 => \E t \in TaskIds :
                      /\ tasks[t].op \in {"handleCallback", "queryOrder"}
                      /\ tasks'[t] # tasks[t]
            /\ orders[i].paid_at # None => orders'[i].paid_at # None]_vars

C24_CallbackIsAuditedWithOrder ==
    [][\A t \in TaskIds :
          Stepped(t, "handleCallback", "log")
          => /\ Len(callbacks') = Len(callbacks) + 1
             /\ callbacks'[Len(callbacks')].order_id # 0
             /\ tasks[t].data.order_no # 0
                  => callbacks'[Len(callbacks')].order_id
                       = GetOrderByNo(tasks[t].data.order_no)]_vars

\* a refund transaction with status success stored for order o
RefundedInLedger(o) ==
    \E k \in 1..Len(transactions) :
        /\ transactions[k].order_id = o
        /\ transactions[k].type = "refund"
        /\ transactions[k].status = "success"

\* C25: an operation whose later store write failed leaves none of its earlier
\* writes behind: a createPayment that ended in a store error after its insert
\* leaves no order row, and once a refund has ended there is no refund
\* transaction with status success for an order that is still in success.
C25_OperationsAreAtomic ==
    \A t \in TaskIds :
        /\ (At(t, "createPayment", "done") /\ tasks[t].result = "throw:store")
              => tasks[t].oid \notin 1..Len(orders)
        /\ At(t, "refund", "done")
              => ~(/\ RefundedInLedger(tasks[t].oid)
                   /\ orders[tasks[t].oid].status = "success")

\* the plugin whose instance the first step of a request asks getPlugin for
PluginAskedFor(tk) ==
    IF tk.op \in {"createPayment", "handleCallback"}
    THEN channels[tk.chan].plugin_id
    ELSE channels[orders[tk.oid].channel_id].plugin_id

\* C26: getPlugin hands out an instance only for a plugin whose record exists
\* and has status active: no createPayment, handleCallback, queryOrder or
\* refund that begins after updatePluginStatus has set the plugin to inactive
\* or error gets past getPlugin.
C26_NoInstanceOfDisabledPlugin ==
    [][\A t \in TaskIds :
          (/\ tasks[t].op = "idle"
           /\ tasks'[t].op \in {"createPayment", "handleCallback",
                                 "queryOrder", "refund"}
           /\ tasks'[t].pc \in {"insert", "log", "call"})
          => /\ PluginAskedFor(tasks'[t]) \in DOMAIN pluginRecs
             /\ pluginRecs[PluginAskedFor(tasks'[t])].status = "active"]_vars

\* C27: under every interleaving of deleteChannel with createPayment, every
\* order that is pending or processing references a channel that is still
\* stored.
C27_UnfinishedOrderHasItsChannel ==
    \A i \in 1..Len(orders) :
        orders[i].status \in {"pending", "processing"}
            => orders[i].channel_id \in DOMAIN channels

\* C28: no step removes the record of a plugin that a channel references, and
\* an unregisterPlugin of such a plugin ends with an error; a plugin without
\* channels is removed by it.
C28_ReferencedPluginIsKept ==
    [][/\ \A q \in DOMAIN pluginRecs :
            (\E c \in DOMAIN channels : channels[c].plugin_id = q)
                => q \in DOMAIN pluginRecs'
       /\ \A t \in TaskIds :
            Began(t, "unregisterPlugin")
            => IF \E c \in DOMAIN channels : channels[c].plugin_id = tasks'[t].data
               THEN tasks'[t].result = "throw:store" /\ pluginRecs' = pluginRecs
               ELSE tasks'[t].result = "ok"
                      /\ tasks'[t].data \notin DOMAIN pluginRecs']_vars

\* an unregisterPlugin was refused for a plugin that owns a channel and whose
\* record is still stored, while another one removed a plugin's record
C28_Witness ==
    \E t \in TaskIds :
        /\ At(t, "unregisterPlugin", "done") /\ tasks[t].result = "throw:store"
        /\ tasks[t].data \in DOMAIN pluginRecs
        /\ \E c \in DOMAIN channels : channels[c].plugin_id = tasks[t].data

\* C29: after any sequence of createChannel and updateChannel, every stored
\* channel has min_amount <= max_amount.
C29_ChannelLimitsAreOrdered ==
    \A c \in DOMAIN channels : channels[c].min_amount <= channels[c].max_amount

\* C30: between the calls of one ConfigManager, every channelCache entry is the
\* stored channel with its configs decrypted, every configCache entry is the
\* decrypted value of a stored row, and getChannelConfig returns the stored
\* row's value, or no value when the row or its channel has been deleted.
C30_CachesAgreeWithStore ==
    Quiet(TaskIds \ { t \in TaskIds : tasks[t].op = "getChannelConfig" })
    => /\ \A c \in DOMAIN channelCache :
             c \in DOMAIN channels /\ channelCache[c] = LoadedChannel(c)
       /\ \A ck \in DOMAIN configCache :
             /\ ck \in DOMAIN configRows
             /\ configCache[ck] = Decrypted(configRows[ck])
       /\ \A t \in TaskIds :
             At(t, "getChannelConfig", "done")
             => LET ck == << tasks[t].chan, tasks[t].data >>
                IN  IF ck \in DOMAIN configRows
                    THEN tasks[t].returned = Some(Decrypted(configRows[ck]))
                    ELSE tasks[t].returned = None

\* C31: at startup every active plugin ends either cached with status active
\* or uncached with status error, whatever happens to the other plugins, and
\* initialize completes; and at any time every cached instance belongs to a
\* plugin whose stored status is active.
C31_LoaderIsolatesFailures ==
    /\ [][(~initialized /\ initialized')
            => \A p \in ActivePlugins :
                 \/ p \in plugins' /\ pluginRecs'[p].status = "active"
                 \/ p \notin plugins' /\ pluginRecs'[p].status = "error"]_vars
    /\ [](\A p \in plugins :
            p \in DOMAIN pluginRecs /\ pluginRecs[p].status = "active")

\* C32: the first getPlugin of a plugin that failed to load at startup (its
\* status is error, it is not cached, and nothing but the payment engine's
\* startup has written the registry) attempts the load again, and when the
\* load succeeds the instance is cached and the status is active.
C32_FailedLoadIsRetried ==
    [][\A t \in TaskIds :
          (/\ Began(t, "getPlugin")
           /\ initialized /\ ~adminInitialized
           /\ tasks'[t].data \notin plugins
           /\ pluginRecs[tasks'[t].data].status = "error")
          => /\ tasks'[t].result \in {"loaded", "loadFailed"}
             /\ tasks'[t].result = "loaded"
                  => /\ tasks'[t].data \in plugins'
                     /\ pluginRecs'[tasks'[t].data].status = "active"]_vars

\* C33: every provider status (success, paid, failed, expired, pending,
\* processing, or one that is not recognized) is mapped to the same order
\* status by the plugin's queryOrder as by its handleCallback.
C33_QueryMapsLikeCallback ==
    \A t \in TaskIds :
        At(t, "mapStatus", "done") => tasks[t].result = tasks[t].res

\* C34: under every interleaving of refund requests, at most one refund
\* transaction with status success is recorded for an order.
C34_AtMostOneSuccessfulRefund ==
    \A j, k \in 1..Len(transactions) :
        (/\ transactions[j].type = "refund" /\ transactions[j].status = "success"
         /\ transactions[k].type = "refund" /\ transactions[k].status = "success"
         /\ transactions[j].order_id = transactions[k].order_id)
        => j = k

\* a callback with a valid signature for the channel that reports success
ValidSuccessCallback(d, c) ==
    VerifyCallback(d, channels[c]) /\ CallbackStatus(d.status) = "success"

\* C35: a verified success callback processed while createPayment for its
\* order waits between plugin.createOrder and its final update puts the order
\* in success, and createPayment's final update after such a callback leaves
\* the order in success.
C35_CallbackSurvivesCreatePayment ==
    [][\A t, u \in TaskIds :
          /\ (/\ At(t, "createPayment", "update")
               /\ Stepped(u, "handleCallback", "log")
               /\ ValidSuccessCallback(tasks[u].data, tasks[u].chan)
               /\ orders[tasks[t].oid].order_no = tasks[u].data.order_no)
              => orders'[tasks[t].oid].status = "success"
          /\ (/\ Stepped(t, "createPayment", "update")
               /\ At(u, "handleCallback", "done")
               /\ tasks[u].result = "ok"
               /\ ValidSuccessCallback(tasks[u].data, GetChannelByCode("CH_B"))
               /\ orders[tasks[t].oid].order_no = tasks[u].data.order_no)
              => orders'[tasks[t].oid].status = "success"]_vars

\* C37: no step of a handleCallback or queryOrder, whatever provider status
\* it carries, sets an order that has left pending (processing, success,
\* failed, cancelled or refunded) back to pending.
C37_StatusNeverRegresses ==
    [][\A t \in TaskIds :
          (tasks[t].op \in {"handleCallback", "queryOrder"}
           /\ tasks'[t] # tasks[t])
          => \A o \in DOMAIN orders :
                orders[o].status # "pending" => orders'[o].status # "pending"]_vars

\* C38: once every getChannel and getChannelConfig that interleaved with an
\* updateChannel, setChannelConfig or deleteChannelConfig has completed, each
\* cache either has no entry for a channel or key or has the value written
\* last: the stored channel with its configs, the stored config value.
C38_NoStaleValueLeftCached ==
    (\A t \in TaskIds : tasks[t].pc \in {"idle", "done"})
    => /\ \A c \in DOMAIN channelCache :
             c \in DOMAIN channels /\ channelCache[c] = LoadedChannel(c)
       /\ \A ck \in DOMAIN configCache :
             /\ ck \in DOMAIN configRows
             /\ configCache[ck] = Decrypted(configRows[ck])

\* C39: whenever the payment controller's queryOrder or refund obtains the
\* channel it passes to the plugin, that channel is the stored row with its
\* configuration as last written (through the admin controller or otherwise),
\* not a copy cached before the write.
C39_AdminWriteIsObserved ==
    [][\A t \in TaskIds :
          ((Began(t, "queryOrder") \/ Began(t, "refund"))
           /\ tasks'[t].pc = "call")
          => EngineGetChannel(orders[tasks'[t].oid].channel_id)
                = LoadedChannel(orders[tasks'[t].oid].channel_id)]_vars

\* C40: every createPayment, handleCallback, queryOrder, refund and
\* getAvailableChannels begun while the engine is not initialized ends at once
\* with the not-initialized error, having called no plugin and left the store,
\* the plugin registry and cache and the channel caches as they were; and the
\* engine becomes initialized only in a step in which the preload of the
\* active channels and the load of the active plugins have both completed.
C40_UninitializedEngineRejects ==
    [][/\ \A t \in TaskIds :
            (~initialized /\ \E o \in EngineOps : Began(t, o))
            => /\ tasks'[t].pc = "done"
               /\ tasks'[t].result = "throw:notInitialized"
               /\ tasks'[t].calls = {}
               /\ << store, config, caches >>' = << store, config, caches >>
       /\ (~initialized /\ initialized')
            => /\ \A c \in DOMAIN PreloadActiveChannels :
                     c \in DOMAIN engineChannelCache'
               /\ \A p \in ActivePlugins :
                     p \in plugins' \/ pluginRecs'[p].status = "error"]_vars

\* an operation was rejected after an initialize that failed part-way: the
\* engine is not initialized although channels are preloaded
C40_Witness ==
    /\ ~initialized
    /\ DOMAIN engineChannelCache # {}
    /\ \E t \in TaskIds :
          tasks[t].op = "refund" /\ tasks[t].result = "throw:notInitialized"

====
